---- MODULE Spec2Model ----
(***************************************************************************)
(* A model of the osf_sync ingestion engine: the cursor store and the      *)
(* incremental / ranged sync drivers (tasks.py), the conflict-resolving    *)
(* upsert (upsert.py), the download pipeline (pdf.py) and the extraction   *)
(* lane (grobid.py), over the two tables of db.py and the data directory.  *)
(*                                                                         *)
(* SQL NULL is the integer NULL for timestamps and numbers, the string     *)
(* "NULL" for text columns and the empty tuple for paths.  Timestamps are  *)
(* integers; a calendar day is DayLen consecutive timestamps.              *)
(***************************************************************************)
EXTENDS Integers, Sequences, FiniteSets, TLC

VARIABLES
    preprints,   \* table preprints: osf_id -> row (DOMAIN = the stored ids)
    sync_state,  \* table sync_state: source_key -> row (DOMAIN = stored keys)
    disk,        \* data directory: path -> content (DOMAIN = existing files)
    registry,    \* the remote registry: osf_id -> object it currently serves
    runs,        \* the sync tasks in progress: run id -> task frame
    now,         \* the database / wall clock
    last         \* the last single-record task run and what it returned

vars == <<preprints, sync_state, disk, registry, runs, now, last>>

----------------------------------------------------------------------------
(* Bounds of the model *)

MaxTime == 2       \* record timestamps range over 1..MaxTime
MaxVersion == 2    \* record versions range over 1..MaxVersion
MaxNow == 1        \* the clock ranges over 1..1 + MaxNow
DayLen == 2        \* timestamps per calendar day

NULL == 0 - 1
NoPath == << >>

Times == 1..MaxTime
Versions == 1..MaxVersion
Clock == 1..(1 + MaxNow)

Provider == "osf"

(* GREATEST of Postgres: NULL arguments are ignored. *)
Greatest(a, b) ==
    IF a = NULL THEN b
    ELSE IF b = NULL THEN a
    ELSE IF a >= b THEN a ELSE b

(* a > b in a WHERE / CASE WHEN: unknown (a NULL operand) does not pass. *)
Gt(a, b) == a # NULL /\ b # NULL /\ a > b

(* COALESCE(a, b) *)
Coalesce(a, b) == IF a # NULL THEN a ELSE b

(* a IS DISTINCT FROM b on text columns: NULL is a value like any other. *)
IsDistinctFrom(a, b) == a # b

(* timestamptz -> DATE (.date() of the UTC datetime): the day it falls on. *)
DateOf(t) == t \div DayLen

----------------------------------------------------------------------------
(* Remote objects.  An object of the registry API carries its id, its       *)
(* attributes and relationships.primary_file (links.related.href, data.id). *)

NoRel == [present |-> FALSE, href |-> "NULL", fid |-> "NULL"]

Rel(href, fid) == [present |-> TRUE, href |-> href, fid |-> fid]

MkObj(id, tags, mod, pub, isp, ver, rel) ==
    [id |-> id, tags |-> tags, date_modified |-> mod, date_published |-> pub,
     is_published |-> isp, version |-> ver, provider |-> Provider, rel |-> rel]

(* upsert.py _row_from_osf: the bind parameters of UPSERT_SQL. *)
RowFromOsf(obj) ==
    [osf_id |-> obj.id,
     tags |-> obj.tags,
     date_modified |-> obj.date_modified,
     date_published |-> obj.date_published,
     is_published |-> obj.is_published,
     version |-> obj.version,
     provider_id |-> obj.provider,
     primary_file_id |-> obj.rel.fid,
     raw |-> obj.rel,
     pdf_downloaded |-> NULL,
     pdf_downloaded_at |-> NULL,
     pdf_path |-> NoPath]

----------------------------------------------------------------------------
(* upsert.py UPSERT_SQL *)

(* VALUES (...): the row a first insert stores; tei_* take the column       *)
(* defaults of the migrations in db.py.                                     *)
InsertedRow(p, t) ==
    [osf_id |-> p.osf_id,
     tags |-> p.tags,
     date_modified |-> p.date_modified,
     date_published |-> p.date_published,
     is_published |-> p.is_published,
     version |-> p.version,
     provider_id |-> p.provider_id,
     primary_file_id |-> p.primary_file_id,
     raw |-> p.raw,
     pdf_downloaded |-> IF p.pdf_downloaded = NULL THEN FALSE ELSE p.pdf_downloaded,
     pdf_downloaded_at |-> p.pdf_downloaded_at,
     pdf_path |-> p.pdf_path,
     tei_generated |-> FALSE,
     tei_generated_at |-> NULL,
     tei_path |-> NoPath,
     updated_at |-> t]

(* Variant: the modified timestamp compared with >= instead of >. *)
UpsertApplies_GeModified(old, p) ==
    \/ old.date_modified = NULL
    \/ (p.date_modified # NULL /\ p.date_modified >= old.date_modified)
    \/ Gt(p.version, old.version)
    \/ IsDistinctFrom(old.primary_file_id, p.primary_file_id)

(* The WHERE of ON CONFLICT DO UPDATE: the update is applied. *)
UpsertApplies(old, p) ==
    \/ old.date_modified = NULL
    \/ Gt(p.date_modified, old.date_modified)
    \/ Gt(p.version, old.version)
    \/ IsDistinctFrom(old.primary_file_id, p.primary_file_id)

(* Variant: every applied update invalidates the download. *)
InvalidatesDownload_Applied(old, p) == UpsertApplies(old, p)

(* The WHEN of the three CASE expressions: the download is invalidated. *)
InvalidatesDownload(old, p) ==
    \/ IsDistinctFrom(old.primary_file_id, p.primary_file_id)
    \/ Gt(p.version, old.version)

(* Variant: the incoming tags appended to the stored array. *)
MergedTags_Append(old, p) == old.tags \o p.tags

(* The columns replaced wholesale by the incoming value, tags for all. *)
MergedTags(old, p) == p.tags

MergedModified(old, p) == Greatest(old.date_modified, p.date_modified)

(* Variant: the version overwritten by the incoming one. *)
MergedVersion_Incoming(old, p) == p.version

MergedVersion(old, p) == Greatest(old.version, p.version)

MergedPublished(old, p) == Coalesce(p.date_published, old.date_published)

(* The SET list. *)
UpdatedRow(old, p, t) ==
    [old EXCEPT
        !.tags = MergedTags(old, p),
        !.date_modified = MergedModified(old, p),
        !.date_published = MergedPublished(old, p),
        !.is_published = p.is_published,
        !.version = MergedVersion(old, p),
        !.provider_id = p.provider_id,
        !.primary_file_id = p.primary_file_id,
        !.raw = p.raw,
        !.pdf_downloaded =
            IF InvalidatesDownload(old, p) THEN FALSE ELSE old.pdf_downloaded,
        !.pdf_downloaded_at =
            IF InvalidatesDownload(old, p) THEN NULL ELSE old.pdf_downloaded_at,
        !.pdf_path =
            IF InvalidatesDownload(old, p) THEN NoPath ELSE old.pdf_path,
        !.updated_at = t]

(* One execution of UPSERT_SQL against table tbl at time t. *)
UpsertSql(tbl, p, t) ==
    IF p.osf_id \notin DOMAIN tbl
    THEN [x \in DOMAIN tbl \cup {p.osf_id} |->
            IF x = p.osf_id THEN InsertedRow(p, t) ELSE tbl[x]]
    ELSE IF UpsertApplies(tbl[p.osf_id], p)
    THEN [tbl EXCEPT ![p.osf_id] = UpdatedRow(tbl[p.osf_id], p, t)]
    ELSE tbl

(* upsert.py upsert_batch: every row of the batch, in order, in one         *)
(* transaction.                                                             *)
RECURSIVE UpsertBatch(_, _, _)
UpsertBatch(tbl, objs, t) ==
    IF objs = << >> THEN tbl
    ELSE UpsertBatch(UpsertSql(tbl, RowFromOsf(Head(objs)), t), Tail(objs), t)

----------------------------------------------------------------------------
(* The remote file service: what GET <href> or GET /files/<id>/ answers for *)
(* each file.  A name is modelled by its extension.                         *)

FileMeta(f) ==
    CASE f = "F1" -> [url |-> "u1", ctype |-> "application/pdf", name |-> ".pdf"]
      [] f = "F2" -> [url |-> "NULL", ctype |-> "application/pdf", name |-> ".pdf"]
      [] f = "F3" -> [url |-> "u3", ctype |-> "application/vnd.openxmlformats-officedocument.wordprocessingml.document", name |-> ".docx"]
      [] f = "F4" -> [url |-> "u4", ctype |-> "image/png", name |-> ".png"]
      [] f = "F5" -> [url |-> "u5", ctype |-> "NULL", name |-> ".PDF"]
      [] OTHER -> [url |-> "NULL", ctype |-> "NULL", name |-> "NULL"]

NoMeta == [url |-> "NULL", ctype |-> "NULL", name |-> "NULL"]

(* pdf.py *)

ACCEPT_PDF == {"application/pdf"}
ACCEPT_DOCX == {"application/vnd.openxmlformats-officedocument.wordprocessingml.document"}

Lower(name) == IF name = ".PDF" THEN ".pdf" ELSE IF name = ".DOCX" THEN ".docx" ELSE name

_looks_pdf(name) == name # "NULL" /\ Lower(name) = ".pdf"
_looks_docx(name) == name # "NULL" /\ Lower(name) = ".docx"

_safe_dir(provider_id, osf_id) == <<provider_id, osf_id>>

PdfPathOf(provider_id, osf_id) == Append(_safe_dir(provider_id, osf_id), "file.pdf")
DocxPathOf(provider_id, osf_id) == Append(_safe_dir(provider_id, osf_id), "file.docx")
TeiPathOf(provider_id, osf_id) == Append(_safe_dir(provider_id, osf_id), "tei.xml")
LegacyPdfPathOf(osf_id) == <<osf_id, "file.pdf">>

(* The files of a record: everything under a directory named by its id. *)
FilesOf(d, osf_id) ==
    {p \in DOMAIN d : \E i \in 1..(Len(p) - 1) : p[i] = osf_id}

WriteFile(d, path, content) ==
    [x \in DOMAIN d \cup {path} |-> IF x = path THEN content ELSE d[x]]

RemoveFile(d, path) == [x \in DOMAIN d \ {path} |-> d[x]]

(* resolve_primary_file_info_from_raw: the related link first, then the id. *)
resolve_primary_file_info_from_raw(raw) ==
    IF raw.href # "NULL" THEN FileMeta(raw.href)
    ELSE IF raw.fid # "NULL" THEN FileMeta(raw.fid)
    ELSE NoMeta

(* delete_preprint *)
delete_preprint(tbl, osf_id) == [x \in DOMAIN tbl \ {osf_id} |-> tbl[x]]

(* mark_downloaded: an UPDATE, so nothing happens when the row is absent. *)
mark_downloaded(tbl, osf_id, local_path, ok, t) ==
    IF osf_id \notin DOMAIN tbl THEN tbl
    ELSE [tbl EXCEPT ![osf_id] =
            [@ EXCEPT
                !.pdf_downloaded = ok,
                !.pdf_downloaded_at = IF ok THEN t ELSE @,
                !.pdf_path = IF ok THEN local_path ELSE @,
                !.updated_at = t]]

(* Variant: a failed conversion leaves the PDF at the canonical path. *)
ensure_pdf_available_or_delete_KeepsPdf(tbl, d, osf_id, provider_id, raw, conv) ==
    LET meta == resolve_primary_file_info_from_raw(raw)
        pdf_path == PdfPathOf(provider_id, osf_id)
        docx_path == DocxPathOf(provider_id, osf_id)
        is_pdf == \/ meta.ctype \in ACCEPT_PDF
                  \/ (meta.ctype = "NULL" /\ _looks_pdf(meta.name))
        is_docx == \/ meta.ctype \in ACCEPT_DOCX
                   \/ (meta.ctype = "NULL" /\ _looks_docx(meta.name))
    IN  IF meta.url = "NULL"
        THEN [kind |-> "deleted", path |-> NoPath,
              tbl |-> delete_preprint(tbl, osf_id), disk |-> d]
        ELSE IF is_pdf
        THEN [kind |-> "pdf", path |-> pdf_path,
              tbl |-> tbl, disk |-> WriteFile(d, pdf_path, meta.url)]
        ELSE IF is_docx
        THEN IF conv
             THEN [kind |-> "docx->pdf", path |-> pdf_path,
                   tbl |-> tbl,
                   disk |-> WriteFile(RemoveFile(d, docx_path), pdf_path, meta.url)]
             ELSE [kind |-> "deleted", path |-> NoPath,
                   tbl |-> delete_preprint(tbl, osf_id),
                   disk |-> RemoveFile(d, docx_path)]
        ELSE [kind |-> "deleted", path |-> NoPath,
              tbl |-> delete_preprint(tbl, osf_id), disk |-> d]

(* ensure_pdf_available_or_delete: the kind it returns, the path, and the   *)
(* table and the disk it leaves.  conv is whether the converter succeeds.   *)
ensure_pdf_available_or_delete(tbl, d, osf_id, provider_id, raw, conv) ==
    LET meta == resolve_primary_file_info_from_raw(raw)
        pdf_path == PdfPathOf(provider_id, osf_id)
        docx_path == DocxPathOf(provider_id, osf_id)
        is_pdf == \/ meta.ctype \in ACCEPT_PDF
                  \/ (meta.ctype = "NULL" /\ _looks_pdf(meta.name))
        is_docx == \/ meta.ctype \in ACCEPT_DOCX
                   \/ (meta.ctype = "NULL" /\ _looks_docx(meta.name))
    IN  IF meta.url = "NULL"
        THEN [kind |-> "deleted", path |-> NoPath,
              tbl |-> delete_preprint(tbl, osf_id), disk |-> d]
        ELSE IF is_pdf
        THEN [kind |-> "pdf", path |-> pdf_path,
              tbl |-> tbl, disk |-> WriteFile(d, pdf_path, meta.url)]
        ELSE IF is_docx
        THEN IF conv
             THEN [kind |-> "docx->pdf", path |-> pdf_path,
                   tbl |-> tbl,
                   disk |-> WriteFile(RemoveFile(d, docx_path), pdf_path, meta.url)]
             ELSE [kind |-> "deleted", path |-> NoPath,
                   tbl |-> delete_preprint(tbl, osf_id),
                   disk |-> RemoveFile(RemoveFile(d, docx_path), pdf_path)]
        ELSE [kind |-> "deleted", path |-> NoPath,
              tbl |-> delete_preprint(tbl, osf_id), disk |-> d]

(* download_pdf_via_raw (imported by tasks.py): the pipeline on the row's   *)
(* raw payload, answering (ok, path).                                       *)
download_pdf_via_raw(tbl, d, osf_id, raw, conv) ==
    LET r == ensure_pdf_available_or_delete(tbl, d, osf_id, tbl[osf_id].provider_id, raw, conv)
    IN  [ok |-> r.kind # "deleted", kind |-> r.kind, path |-> r.path,
         tbl |-> r.tbl, disk |-> r.disk]

(* tasks.py download_single_pdf: the row must be published and not yet      *)
(* downloaded.                                                              *)
(* Variant: the row is selected whatever its download lane says. *)
NeedsDownload_AnyLane(tbl, osf_id) ==
    /\ osf_id \in DOMAIN tbl
    /\ tbl[osf_id].is_published = TRUE

NeedsDownload(tbl, osf_id) ==
    /\ osf_id \in DOMAIN tbl
    /\ tbl[osf_id].is_published = TRUE
    /\ tbl[osf_id].pdf_downloaded = FALSE

----------------------------------------------------------------------------
(* grobid.py *)

(* _pdf_path: the provider-scoped file, else the legacy flat one. *)
_pdf_path(d, provider_id, osf_id) ==
    IF PdfPathOf(provider_id, osf_id) \in DOMAIN d THEN PdfPathOf(provider_id, osf_id)
    ELSE IF LegacyPdfPathOf(osf_id) \in DOMAIN d THEN LegacyPdfPathOf(osf_id)
    ELSE NoPath

(* The disk after _pdf_path: a legacy file is moved into the new layout. *)
DiskAfterPdfPath(d, provider_id, osf_id) ==
    IF /\ PdfPathOf(provider_id, osf_id) \notin DOMAIN d
       /\ LegacyPdfPathOf(osf_id) \in DOMAIN d
    THEN WriteFile(RemoveFile(d, LegacyPdfPathOf(osf_id)),
                   PdfPathOf(provider_id, osf_id), d[LegacyPdfPathOf(osf_id)])
    ELSE d

(* process_pdf_to_tei(provider_id, osf_id): svc is whether the service      *)
(* answers; the TEI is written to a temp file and renamed.                  *)
process_pdf_to_tei(d, provider_id, osf_id, svc) ==
    IF _pdf_path(d, provider_id, osf_id) = NoPath
    THEN [ok |-> FALSE, tei_path |-> NoPath, err |-> "PDF missing", disk |-> d]
    ELSE IF ~svc
    THEN [ok |-> FALSE, tei_path |-> NoPath, err |-> "RequestException",
          disk |-> DiskAfterPdfPath(d, provider_id, osf_id)]
    ELSE [ok |-> TRUE, tei_path |-> TeiPathOf(provider_id, osf_id), err |-> "NULL",
          disk |-> WriteFile(DiskAfterPdfPath(d, provider_id, osf_id),
                             TeiPathOf(provider_id, osf_id), "tei")]

(* Variant: the update also writes the download flag. *)
mark_tei_WritesDownload(tbl, osf_id, ok, tei_path, t) ==
    IF osf_id \notin DOMAIN tbl THEN tbl
    ELSE [tbl EXCEPT ![osf_id] =
            [@ EXCEPT
                !.pdf_downloaded = ok,
                !.tei_generated = ok,
                !.tei_generated_at = IF ok THEN t ELSE @,
                !.tei_path = IF ok THEN tei_path ELSE @,
                !.updated_at = t]]

(* mark_tei *)
mark_tei(tbl, osf_id, ok, tei_path, t) ==
    IF osf_id \notin DOMAIN tbl THEN tbl
    ELSE [tbl EXCEPT ![osf_id] =
            [@ EXCEPT
                !.tei_generated = ok,
                !.tei_generated_at = IF ok THEN t ELSE @,
                !.tei_path = IF ok THEN tei_path ELSE @,
                !.updated_at = t]]

(* The extraction stage's preconditions: the row exists, is downloaded and  *)
(* has no TEI yet.                                                          *)
NeedsTei(tbl, osf_id) ==
    /\ osf_id \in DOMAIN tbl
    /\ tbl[osf_id].pdf_downloaded = TRUE
    /\ tbl[osf_id].tei_generated = FALSE

----------------------------------------------------------------------------
(* Inputs of the single-record operations *)

Ids == {"p1"}

(* The objects fetch_one can be handed for a record: any timestamps,       *)
(* version and file reference the registry may serve.                       *)
FetchOneObjs ==
    {MkObj(id, <<"a">>, mod, pub, TRUE, ver, rel) :
        id \in Ids, mod \in Times \cup {NULL},
        pub \in Times \cup {NULL}, ver \in Versions,
        rel \in {NoRel, Rel("F1", "F1"), Rel("F2", "F2")}}

EmptyTable == << >>

Op(op, id, res) == [op |-> op, id |-> id, res |-> res]

NoOp == Op("none", "NULL", "NULL")

Init ==
    /\ preprints = EmptyTable
    /\ sync_state = EmptyTable
    /\ disk = EmptyTable
    /\ registry = EmptyTable
    /\ runs = EmptyTable
    /\ now = 1
    /\ last = NoOp

(* The clock advances. *)
Tick ==
    /\ now < 1 + MaxNow
    /\ now' = now + 1
    /\ UNCHANGED <<preprints, sync_state, disk, registry, runs, last>>

(* What one UPSERT_SQL does with obj: insert, update, or nothing. *)
UpsertOutcome(tbl, obj) ==
    IF obj.id \notin DOMAIN tbl THEN "inserted"
    ELSE IF UpsertApplies(tbl[obj.id], RowFromOsf(obj)) THEN "applied"
    ELSE "skipped"

(* fetch_one.py upsert_one_preprint: upsert_batch([data]). *)
upsert_one_preprint(obj) ==
    /\ preprints' = UpsertBatch(preprints, <<obj>>, now)
    /\ last' = Op("upsert", obj.id, UpsertOutcome(preprints, obj))
    /\ UNCHANGED <<sync_state, disk, registry, runs, now>>

(* tasks.py download_single_pdf, run without interruption. *)
download_single_pdf(osf_id, conv) ==
    /\ IF ~NeedsDownload(preprints, osf_id)
       THEN /\ last' = Op("download", osf_id, "skipped")
            /\ UNCHANGED <<preprints, disk>>
       ELSE LET r == download_pdf_via_raw(preprints, disk, osf_id,
                                          preprints[osf_id].raw, conv)
            IN  /\ preprints' = mark_downloaded(r.tbl, osf_id, r.path, r.ok, now)
                /\ disk' = r.disk
                /\ last' = [op |-> "download", id |-> osf_id, res |-> r.kind]
    /\ UNCHANGED <<sync_state, registry, runs, now>>

(* The extraction stage on one record: process_pdf_to_tei with the row's    *)
(* provider, then mark_tei.                                                 *)
ensureExtracted(osf_id, svc) ==
    /\ IF ~NeedsTei(preprints, osf_id)
       THEN /\ last' = Op("extract", osf_id, "skipped")
            /\ UNCHANGED <<preprints, disk>>
       ELSE LET r == process_pdf_to_tei(disk, preprints[osf_id].provider_id, osf_id, svc)
            IN  /\ preprints' = mark_tei(preprints, osf_id, r.ok, r.tei_path, now)
                /\ disk' = r.disk
                /\ last' = [op |-> "extract", id |-> osf_id,
                            res |-> IF r.ok THEN "extracted" ELSE "failed"]
    /\ UNCHANGED <<sync_state, registry, runs, now>>

Next ==
    \/ Tick
    \/ \E obj \in FetchOneObjs : upsert_one_preprint(obj)
    \/ \E id \in Ids, conv \in BOOLEAN : download_single_pdf(id, conv)
    \/ \E id \in Ids, svc \in BOOLEAN : ensureExtracted(id, svc)

Spec == Init /\ [][Next]_vars

----------------------------------------------------------------------------
(* tasks.py: the cursor and the two sync tasks *)

PageSize == 1      \* records per server page (MAX_PAGE, scaled down)
MaxBatch == 2      \* batch_size ranges over 1..MaxBatch

LookbackDays == 7
SOURCE_KEY_ALL == "osf:all"

Subjects == {"NULL", "Psychology"}
RunIds == {"r1", "r2"}
RegIds == {"p1", "p2"}

(* The objects the registry may come to serve. *)
RegistryObjs ==
    {MkObj(id, <<"a">>, pub, pub, TRUE, 1, Rel("F1", "F1")) : id \in RegIds, pub \in Times}

(* The taxonomy: which records a subject filter lets through. *)
InSubject(obj, subject_text) ==
    subject_text = "NULL" \/ (subject_text = "Psychology" /\ obj.id = "p1")

SourceKeyOf(subject_text) ==
    IF subject_text # "NULL" THEN "osf:" \o subject_text ELSE SOURCE_KEY_ALL

(* _get_cursor *)
_get_cursor(ss, k) == IF k \in DOMAIN ss THEN ss[k].last_seen_published ELSE NULL

(* Variant: the cursor overwritten by the incoming value. *)
_set_cursor_Overwrite(ss, k, v, t) ==
    [x \in DOMAIN ss \cup {k} |->
        IF x = k THEN [last_seen_published |-> v, last_run_at |-> t] ELSE ss[x]]

(* _set_cursor: INSERT ... ON CONFLICT DO UPDATE with GREATEST *)
_set_cursor(ss, k, v, t) ==
    IF k \notin DOMAIN ss
    THEN [x \in DOMAIN ss \cup {k} |->
            IF x = k THEN [last_seen_published |-> v, last_run_at |-> t] ELSE ss[x]]
    ELSE [ss EXCEPT ![k] =
            [last_seen_published |-> Greatest(@.last_seen_published, v),
             last_run_at |-> t]]

(* _parse_iso_dt: the instant of an ISO timestamp, None for a missing one. *)
_parse_iso_dt(v) == IF v = NULL THEN NULL ELSE v

(* The registry's answer to the filters: published records whose publish    *)
(* date lies in [since_date, until_date], of the subject.                   *)
Matching(reg, since_date, until_date, subject_text) ==
    {reg[x] : x \in {y \in DOMAIN reg :
        /\ reg[y].is_published
        /\ reg[y].date_published # NULL
        /\ DateOf(reg[y].date_published) >= since_date
        /\ (until_date = NULL \/ DateOf(reg[y].date_published) <= until_date)
        /\ InSubject(reg[y], subject_text)}}

(* sort=date_published: every ascending order of the answer. *)
SortedSeqs(S) ==
    {q \in [1..Cardinality(S) -> S] :
        /\ \A i, j \in 1..Cardinality(S) : i # j => q[i] # q[j]
        /\ \A i, j \in 1..Cardinality(S) :
              i < j => q[i].date_published <= q[j].date_published}

(* The server's pages of the answer. *)
RECURSIVE PagesOf(_)
PagesOf(records) ==
    IF records = << >> THEN << >>
    ELSE IF Len(records) <= PageSize THEN <<records>>
    ELSE <<SubSeq(records, 1, PageSize)>>
            \o PagesOf(SubSeq(records, PageSize + 1, Len(records)))

(* iter_preprints.py iter_preprints_batches / iter_preprints_range: the     *)
(* loop over the pages, at most one batch emitted per page, the remainder   *)
(* flushed at the end.                                                      *)
RECURSIVE IterBatches(_, _, _)
IterBatches(pages, batch, batch_size) ==
    IF pages = << >>
    THEN IF batch # << >> THEN <<batch>> ELSE << >>
    ELSE LET b == batch \o Head(pages)
         IN  IF Len(b) >= batch_size
             THEN <<SubSeq(b, 1, batch_size)>>
                    \o IterBatches(Tail(pages), SubSeq(b, batch_size + 1, Len(b)), batch_size)
             ELSE IterBatches(Tail(pages), b, batch_size)

iter_preprints_batches(records, batch_size) == IterBatches(PagesOf(records), << >>, batch_size)

(* Variant: the earliest publish date tracked instead of the latest. *)
RECURSIVE TrackMax_Min(_, _)
TrackMax_Min(seen, batch) ==
    IF batch = << >> THEN seen
    ELSE LET pub == _parse_iso_dt(Head(batch).date_published)
         IN  TrackMax_Min(IF pub # NULL /\ (seen = NULL \/ pub < seen) THEN pub ELSE seen,
                          Tail(batch))

(* sync_from_osf: max_published_seen after the loop over one batch. *)
RECURSIVE TrackMax(_, _)
TrackMax(seen, batch) ==
    IF batch = << >> THEN seen
    ELSE LET pub == _parse_iso_dt(Head(batch).date_published)
         IN  TrackMax(IF pub # NULL /\ (seen = NULL \/ pub > seen) THEN pub ELSE seen,
                      Tail(batch))

(* The latest publish date of a non-empty set of objects. *)
MaxPub(S) ==
    CHOOSE m \in {o.date_published : o \in S} : \A o \in S : o.date_published <= m

(* Variant: the ranged sync advancing the cursor like the incremental one. *)
RangeSyncState_SetsCursor(ss, f, t) ==
    IF f.fetched # {} THEN _set_cursor(ss, f.key, MaxPub(f.fetched), t) ELSE ss

(* sync_from_date_to_now: what the task does to sync_state when it returns. *)
RangeSyncState(ss, f, t) == ss

Frame(task, subject_text, since_dt, batches) ==
    [task |-> task, subject |-> subject_text, key |-> SourceKeyOf(subject_text),
     since_dt |-> since_dt, pending |-> batches,
     max_published_seen |-> NULL, fetched |-> {}, total |-> 0]

AddRun(r, f) == [x \in DOMAIN runs \cup {r} |-> IF x = r THEN f ELSE runs[x]]
DropRun(r) == [x \in DOMAIN runs \ {r} |-> runs[x]]

(* The registry comes to serve a record. *)
RegistryPublish(obj) ==
    /\ obj.id \notin DOMAIN registry
    /\ registry' = [x \in DOMAIN registry \cup {obj.id} |->
                        IF x = obj.id THEN obj ELSE registry[x]]
    /\ UNCHANGED <<preprints, sync_state, disk, runs, now, last>>

(* sync_from_osf up to the loop: the cursor read, the look-back window on   *)
(* a first run, and the fetch from the date of the lower bound.             *)
SyncStart(r, subject_text, batch_size) ==
    /\ r \notin DOMAIN runs
    /\ LET cur == _get_cursor(sync_state, SourceKeyOf(subject_text))
           since_dt == IF cur = NULL THEN now - LookbackDays * DayLen ELSE cur
           since_iso_date == DateOf(since_dt)
       IN  \E records \in SortedSeqs(Matching(registry, since_iso_date, NULL, subject_text)) :
              runs' = AddRun(r, Frame("sync_from_osf", subject_text, since_dt,
                                      iter_preprints_batches(records, batch_size)))
    /\ UNCHANGED <<preprints, sync_state, disk, registry, now, last>>

(* One turn of the loop: the batch's publish dates tracked, the batch       *)
(* upserted.                                                                *)
SyncBatch(r) ==
    /\ r \in DOMAIN runs
    /\ runs[r].task = "sync_from_osf"
    /\ runs[r].pending # << >>
    /\ LET batch == Head(runs[r].pending)
       IN  /\ preprints' = UpsertBatch(preprints, batch, now)
           /\ runs' = [runs EXCEPT ![r] =
                 [@ EXCEPT !.pending = Tail(@),
                           !.max_published_seen = TrackMax(@, batch),
                           !.fetched = @ \cup {batch[i] : i \in 1..Len(batch)},
                           !.total = @ + Len(batch)]]
    /\ UNCHANGED <<sync_state, disk, registry, now, last>>

(* After the loop: the cursor advanced when a publish date was seen. *)
SyncFinish(r) ==
    /\ r \in DOMAIN runs
    /\ runs[r].task = "sync_from_osf"
    /\ runs[r].pending = << >>
    /\ sync_state' =
          IF runs[r].max_published_seen # NULL
          THEN _set_cursor(sync_state, runs[r].key, runs[r].max_published_seen, now)
          ELSE sync_state
    /\ runs' = DropRun(r)
    /\ UNCHANGED <<preprints, disk, registry, now, last>>

(* A page fetch or a batch upsert raises: the task ends where it is. *)
(* Variant of SyncRaise: the failing run stores the newest publish date it *)
(* has seen so far before the exception propagates.                        *)
SyncRaise_SetsCursor(r) ==
    /\ r \in DOMAIN runs
    /\ runs[r].pending # << >>
    /\ sync_state' =
          IF runs[r].task = "sync_from_osf" /\ runs[r].max_published_seen # NULL
          THEN _set_cursor(sync_state, runs[r].key, runs[r].max_published_seen, now)
          ELSE sync_state
    /\ runs' = DropRun(r)
    /\ UNCHANGED <<preprints, disk, registry, now, last>>

SyncRaise(r) ==
    /\ r \in DOMAIN runs
    /\ runs[r].pending # << >>
    /\ runs' = DropRun(r)
    /\ UNCHANGED <<preprints, sync_state, disk, registry, now, last>>

(* sync_from_date_to_now up to the loop: the fetch of [start_date, today]. *)
RangeStart(r, start_date, subject_text, batch_size) ==
    /\ r \notin DOMAIN runs
    /\ \E records \in SortedSeqs(Matching(registry, start_date, DateOf(now), subject_text)) :
          runs' = AddRun(r, Frame("sync_from_date_to_now", subject_text, NULL,
                                  iter_preprints_batches(records, batch_size)))
    /\ UNCHANGED <<preprints, sync_state, disk, registry, now, last>>

(* One turn of its loop: the batch upserted. *)
RangeBatch(r) ==
    /\ r \in DOMAIN runs
    /\ runs[r].task = "sync_from_date_to_now"
    /\ runs[r].pending # << >>
    /\ LET batch == Head(runs[r].pending)
       IN  /\ preprints' = UpsertBatch(preprints, batch, now)
           /\ runs' = [runs EXCEPT ![r] =
                 [@ EXCEPT !.pending = Tail(@),
                           !.fetched = @ \cup {batch[i] : i \in 1..Len(batch)},
                           !.total = @ + Len(batch)]]
    /\ UNCHANGED <<sync_state, disk, registry, now, last>>

(* Its return. *)
RangeFinish(r) ==
    /\ r \in DOMAIN runs
    /\ runs[r].task = "sync_from_date_to_now"
    /\ runs[r].pending = << >>
    /\ sync_state' = RangeSyncState(sync_state, runs[r], now)
    /\ runs' = DropRun(r)
    /\ UNCHANGED <<preprints, disk, registry, now, last>>

Days == 0..(MaxTime \div DayLen)

NextSync ==
    \/ Tick
    \/ \E obj \in RegistryObjs : RegistryPublish(obj)
    \/ \E r \in RunIds, s \in Subjects, bs \in 1..MaxBatch : SyncStart(r, s, bs)
    \/ \E r \in RunIds : SyncBatch(r)
    \/ \E r \in RunIds : SyncFinish(r)
    \/ \E r \in RunIds : SyncRaise(r)
    \/ \E r \in RunIds, d \in Days, s \in Subjects, bs \in 1..MaxBatch : RangeStart(r, d, s, bs)
    \/ \E r \in RunIds : RangeBatch(r)
    \/ \E r \in RunIds : RangeFinish(r)

SpecSync == Init /\ [][NextSync]_vars

----------------------------------------------------------------------------
(* Properties of the cursor *)

(* a is later / greater than b, both known. *)
After(a, b) == a # NULL /\ b # NULL /\ a > b

IntMax(a, b) == IF a >= b THEN a ELSE b

(* Run r of the given task returns in this step. *)
Returns(r, task) ==
    /\ r \in DOMAIN runs
    /\ runs[r].task = task
    /\ runs[r].pending = << >>
    /\ r \notin DOMAIN runs'

(* This step is a step of a run of the given task. *)
StepOf(task) ==
    \E r \in RunIds :
        \/ r \in DOMAIN runs /\ runs[r].task = task
              /\ (r \notin DOMAIN runs' \/ runs'[r] # runs[r])
        \/ r \notin DOMAIN runs /\ r \in DOMAIN runs' /\ runs'[r].task = task

(* C1: no step removes a cursor row or lowers its last_seen_published, and  *)
(* a returning incremental run that saw a publish date leaves the cursor of *)
(* its key at the maximum of the stored and the incoming value.             *)
C1_CursorMonotonic ==
    [][/\ \A k \in DOMAIN sync_state :
              /\ k \in DOMAIN sync_state'
              /\ sync_state'[k].last_seen_published >= sync_state[k].last_seen_published
       /\ \A r \in RunIds :
              (Returns(r, "sync_from_osf") /\ runs[r].max_published_seen # NULL) =>
                  sync_state'[runs[r].key].last_seen_published =
                      IntMax(_get_cursor(sync_state, runs[r].key),
                             runs[r].max_published_seen)]_vars

(* A cursor is stored while a concurrent run of the same key is about to    *)
(* write an earlier publish date.                                           *)
C1_Witness ==
    \E r \in DOMAIN runs :
        /\ runs[r].task = "sync_from_osf"
        /\ runs[r].pending = << >>
        /\ runs[r].key \in DOMAIN sync_state
        /\ After(sync_state[runs[r].key].last_seen_published, runs[r].max_published_seen)

(* C2: no step of a ranged sync changes the sync_state table. *)
C2_RangeSyncLeavesCursor ==
    [][StepOf("sync_from_date_to_now") => sync_state' = sync_state]_vars

(* A ranged sync has upserted records published after the stored cursor of  *)
(* its key and is about to return.                                          *)
C2_Witness ==
    \E r \in DOMAIN runs :
        /\ runs[r].task = "sync_from_date_to_now"
        /\ runs[r].pending = << >>
        /\ runs[r].fetched # {}
        /\ runs[r].key \in DOMAIN sync_state
        /\ MaxPub(runs[r].fetched) > sync_state[runs[r].key].last_seen_published
        /\ \A o \in runs[r].fetched : o.id \in DOMAIN preprints

(* C3: an incremental run that returns after fetching records leaves the    *)
(* cursor of its key at the latest publish date among the records it        *)
(* fetched, merged with the stored value, and every other row alone; a run  *)
(* that fetched nothing leaves sync_state untouched.                        *)
C3_CursorIsMaxPublished ==
    [][\A r \in RunIds : Returns(r, "sync_from_osf") =>
          IF runs[r].fetched # {}
          THEN /\ DOMAIN sync_state' = DOMAIN sync_state \cup {runs[r].key}
               /\ sync_state'[runs[r].key].last_seen_published =
                      IntMax(_get_cursor(sync_state, runs[r].key), MaxPub(runs[r].fetched))
               /\ \A k \in DOMAIN sync_state : k # runs[r].key => sync_state'[k] = sync_state[k]
          ELSE sync_state' = sync_state]_vars

(* The cursor of the unfiltered source stands at the latest publish date of *)
(* two stored records published at different times, which is neither the   *)
(* current time nor the look-back bound.                                    *)
C3_Witness ==
    /\ SOURCE_KEY_ALL \in DOMAIN sync_state
    /\ sync_state[SOURCE_KEY_ALL].last_seen_published = MaxTime
    /\ sync_state[SOURCE_KEY_ALL].last_seen_published # now
    /\ DOMAIN preprints = RegIds
    /\ preprints["p1"].date_published # preprints["p2"].date_published
    /\ runs = EmptyTable

----------------------------------------------------------------------------
(* Properties of the upsert *)

(* The step upserts obj into a table that already stores its id. *)
UpsertsStored(obj) == obj.id \in DOMAIN preprints /\ upsert_one_preprint(obj)

(* The newer-than predicate as the specification states it. *)
NewerThan(old, obj) ==
    \/ After(obj.date_modified, old.date_modified)
    \/ After(obj.version, old.version)
    \/ obj.rel.fid # old.primary_file_id

(* The row was rewritten from the incoming object at the current time. *)
Rewritten(new, obj) ==
    /\ new.tags = obj.tags
    /\ new.primary_file_id = obj.rel.fid
    /\ new.raw = obj.rel
    /\ new.is_published = obj.is_published
    /\ new.updated_at = now

Bookkeeping(row) == [row EXCEPT !.updated_at = NULL]

(* Two tables agree on everything but updated_at. *)
SameButBookkeeping(a, b) ==
    /\ DOMAIN a = DOMAIN b
    /\ \A x \in DOMAIN a : Bookkeeping(a[x]) = Bookkeeping(b[x])

DownloadLaneUnset(row) ==
    row.pdf_downloaded = FALSE /\ row.pdf_downloaded_at = NULL /\ row.pdf_path = NoPath

ExtractionLaneUnset(row) ==
    row.tei_generated = FALSE /\ row.tei_generated_at = NULL /\ row.tei_path = NoPath

(* C4 as stated: an upsert of a stored id changes the row if and only if    *)
(* the incoming record is newer (modified later, version greater, or file   *)
(* id different).                                                           *)
C4_ChangesIffNewer ==
    [][\A obj \in FetchOneObjs : UpsertsStored(obj) =>
          ((preprints'[obj.id] # preprints[obj.id])
              <=> NewerThan(preprints[obj.id], obj))]_vars

(* The table an upsert of obj leaves from the current state. *)
Upserted(obj) == UpsertBatch(preprints, <<obj>>, now)

(* C4 amended: an upsert of a stored id changes the row only if the         *)
(* incoming record is newer or the stored modified timestamp is null; in    *)
(* those cases the row is rewritten from the incoming record, and a newer   *)
(* record always changes it; otherwise the row is left completely unchanged.*)
C4_ChangesIffNewerOrNullModified ==
    \A obj \in FetchOneObjs : obj.id \in DOMAIN preprints =>
        LET old == preprints[obj.id]
            new == Upserted(obj)[obj.id]
        IN  /\ (new # old) => (NewerThan(old, obj) \/ old.date_modified = NULL)
            /\ NewerThan(old, obj) => (new # old)
            /\ (NewerThan(old, obj) \/ old.date_modified = NULL) => Rewritten(new, obj)

(* An upsert was applied to a stored row whose modified timestamp is null   *)
(* and whose download was kept: neither the version was greater nor the     *)
(* file id different.                                                       *)
C4_Witness ==
    /\ last.op = "upsert" /\ last.res = "applied"
    /\ preprints[last.id].date_modified = NULL
    /\ preprints[last.id].pdf_downloaded = TRUE
    /\ preprints[last.id].updated_at > preprints[last.id].pdf_downloaded_at

(* C5: from every store state and for every record, upserting the record a  *)
(* second time leaves the table as the first call left it, in every field   *)
(* but updated_at, both lanes included.                                     *)
C5_UpsertIdempotent ==
    \A obj \in FetchOneObjs :
        LET once == Upserted(obj)
        IN  \A t \in Clock : t >= now =>
                SameButBookkeeping(UpsertBatch(once, <<obj>>, t), once)

(* An upsert was applied to a row whose two lanes are set, and kept them. *)
C5_Witness ==
    /\ last.op = "upsert" /\ last.res = "applied"
    /\ preprints[last.id].pdf_downloaded = TRUE
    /\ preprints[last.id].tei_generated = TRUE

(* C6: an upsert with a greater version or a different primary_file_id      *)
(* leaves both lanes of the record unset.                                   *)
C6_InvalidationUnsetsBothLanes ==
    [][\A obj \in FetchOneObjs : UpsertsStored(obj) =>
          LET old == preprints[obj.id]
              new == preprints'[obj.id]
          IN  (After(obj.version, old.version) \/ obj.rel.fid # old.primary_file_id)
                  => (DownloadLaneUnset(new) /\ ExtractionLaneUnset(new))]_vars

(* C7: an upsert of a stored id never lowers the version nor moves the      *)
(* modified timestamp back, and an applied one leaves both at the maximum   *)
(* of the stored and the incoming value.                                    *)
C7_VersionAndModifiedMonotonic ==
    \A obj \in FetchOneObjs : obj.id \in DOMAIN preprints =>
        LET old == preprints[obj.id]
            new == Upserted(obj)[obj.id]
        IN  /\ new.version >= old.version
            /\ new.date_modified >= old.date_modified
            /\ UpsertOutcome(preprints, obj) = "applied" =>
                  /\ new.version = IntMax(old.version, obj.version)
                  /\ new.date_modified = IntMax(old.date_modified, obj.date_modified)

(* An upsert was applied and the row holds the highest version and the      *)
(* latest modified timestamp.                                               *)
C7_Witness ==
    /\ last.op = "upsert" /\ last.res = "applied"
    /\ preprints[last.id].version = MaxVersion
    /\ preprints[last.id].date_modified = MaxTime
    /\ preprints[last.id].primary_file_id = "NULL"

(* C8: once the stored published timestamp is known no upsert changes it.   *)
C8_PublishedPreserved ==
    [][\A obj \in FetchOneObjs : UpsertsStored(obj) =>
          (preprints[obj.id].date_published # NULL
              => preprints'[obj.id].date_published = preprints[obj.id].date_published)]_vars

(* C9: from every store state, upserting A then B leaves the same record    *)
(* (updated_at aside) as upserting B then A.                                *)
C9_UpsertsCommute ==
    \A a \in FetchOneObjs, b \in FetchOneObjs :
        a.id = b.id =>
            SameButBookkeeping(
                UpsertBatch(UpsertBatch(preprints, <<a>>, now), <<b>>, now),
                UpsertBatch(UpsertBatch(preprints, <<b>>, now), <<a>>, now))

(* C10: the download of a record whose file resolves to no URL reports      *)
(* deleted, removes the record and leaves no file of the record on disk.    *)
C10_UnresolvableDeleted ==
    [][\A id \in Ids, conv \in BOOLEAN :
          (/\ NeedsDownload(preprints, id)
           /\ download_single_pdf(id, conv)
           /\ resolve_primary_file_info_from_raw(preprints[id].raw).url = "NULL")
          => /\ last'.res = "deleted"
             /\ id \notin DOMAIN preprints'
             /\ FilesOf(disk', id) = {}]_vars

----------------------------------------------------------------------------
(* tasks.py: the catch-up chains and their work items *)

MaxLimit == 2      \* limit of a catch-up enqueue ranges over 0..MaxLimit

PdfMaxRetries == 3
GrobidMaxRetries == 3

PipeIds == {"p1", "p2"}
ChainIds == {"c1"}

(* The records the store is fed with: one version, any of the file kinds. *)
PipeObjs ==
    {MkObj(id, <<"a">>, 1, 1, TRUE, 1, rel) :
        id \in PipeIds,
        rel \in {Rel("F1", "F1"), Rel("F3", "F3"), Rel("F4", "F4")}}

(* The network calls of the download pipeline on a raw payload: the file    *)
(* lookup of resolve_primary_file_info_from_raw and the GET of _download_to.*)
ResolveCalls(raw) == IF raw.href # "NULL" \/ raw.fid # "NULL" THEN 1 ELSE 0

DownloadCalls(raw) ==
    LET meta == resolve_primary_file_info_from_raw(raw)
    IN  IF /\ meta.url # "NULL"
           /\ \/ meta.ctype \in ACCEPT_PDF \cup ACCEPT_DOCX
              \/ (meta.ctype = "NULL" /\ (_looks_pdf(meta.name) \/ _looks_docx(meta.name)))
        THEN 1 ELSE 0

(* What can happen to an attempt: nothing, the file lookup fails on the     *)
(* network, the file GET fails on the network, writing the file fails.      *)
Envs == {"ok", "net_resolve", "net_download", "os_error"}

(* The body of download_single_pdf under env: the exception it raises, the  *)
(* result it returns (the exception's name when it raises), the network     *)
(* calls it issued, the table and the disk it leaves.                       *)
DownloadBody(tbl, d, osf_id, env, conv, t) ==
    IF ~NeedsDownload(tbl, osf_id)
    THEN [exc |-> "none", res |-> "skipped", calls |-> 0, tbl |-> tbl, disk |-> d]
    ELSE LET raw == tbl[osf_id].raw
         IN  CASE env = "net_resolve" ->
                    [exc |-> "RequestException", res |-> "RequestException",
                     calls |-> ResolveCalls(raw), tbl |-> tbl, disk |-> d]
               [] env = "net_download" ->
                    [exc |-> "RequestException", res |-> "RequestException",
                     calls |-> ResolveCalls(raw) + DownloadCalls(raw),
                     tbl |-> tbl, disk |-> d]
               [] env = "os_error" ->
                    [exc |-> "OSError", res |-> "OSError",
                     calls |-> ResolveCalls(raw) + DownloadCalls(raw),
                     tbl |-> tbl, disk |-> d]
               [] OTHER ->
                    LET r == download_pdf_via_raw(tbl, d, osf_id, raw, conv)
                    IN  [exc |-> "none", res |-> r.kind,
                         calls |-> ResolveCalls(raw) + DownloadCalls(raw),
                         tbl |-> mark_downloaded(r.tbl, osf_id, r.path, r.ok, t),
                         disk |-> r.disk]

(* env can happen to the download of osf_id: a call fails only if issued. *)
EnvApplies(tbl, osf_id, env) ==
    \/ env = "ok"
    \/ /\ NeedsDownload(tbl, osf_id)
       /\ \/ env = "net_resolve" /\ ResolveCalls(tbl[osf_id].raw) = 1
          \/ env \in {"net_download", "os_error"} /\ DownloadCalls(tbl[osf_id].raw) = 1

(* The body of grobid_single: the three early returns, then the call        *)
(* process_pdf_to_tei(osf_id) of a function declared with two parameters.   *)
(* Variant: a record whose extraction lane is set is processed again. *)
GrobidBody_NoProcessedCheck(tbl, d, osf_id, svc, t) ==
    IF osf_id \notin DOMAIN tbl
    THEN [exc |-> "none", res |-> "skipped", calls |-> 0, tbl |-> tbl, disk |-> d]
    ELSE IF tbl[osf_id].pdf_downloaded # TRUE
    THEN [exc |-> "none", res |-> "skipped", calls |-> 0, tbl |-> tbl, disk |-> d]
    ELSE [exc |-> "TypeError", res |-> "TypeError", calls |-> 0, tbl |-> tbl, disk |-> d]

GrobidBody(tbl, d, osf_id, svc, t) ==
    IF osf_id \notin DOMAIN tbl
    THEN [exc |-> "none", res |-> "skipped", calls |-> 0, tbl |-> tbl, disk |-> d]
    ELSE IF tbl[osf_id].pdf_downloaded # TRUE
    THEN [exc |-> "none", res |-> "skipped", calls |-> 0, tbl |-> tbl, disk |-> d]
    ELSE IF tbl[osf_id].tei_generated = TRUE
    THEN [exc |-> "none", res |-> "skipped", calls |-> 0, tbl |-> tbl, disk |-> d]
    ELSE [exc |-> "TypeError", res |-> "TypeError", calls |-> 0, tbl |-> tbl, disk |-> d]

(* autoretry_for=(RequestException,) with max_retries: how an attempt that  *)
(* raised exc after retries re-executions ends.                             *)
AttemptEnds(exc, retries, max_retries) ==
    IF exc = "none" THEN "success"
    ELSE IF exc = "RequestException" /\ retries < max_retries THEN "retry"
    ELSE "failure"

MaxRetriesOf(kind) == IF kind = "pdf" THEN PdfMaxRetries ELSE GrobidMaxRetries

(* ORDER BY key ASC NULLS LAST *)
NullsLastLe(a, b) == b = NULL \/ (a # NULL /\ a <= b)

(* Every order of the ids of S the ORDER BY allows; key maps ids to values. *)
OrderedIds(S, key) ==
    {q \in [1..Cardinality(S) -> S] :
        /\ \A i, j \in 1..Cardinality(S) : i # j => q[i] # q[j]
        /\ \A i, j \in 1..Cardinality(S) : i < j => NullsLastLe(key[q[i]], key[q[j]])}

(* LIMIT n *)
Limit(q, n) == SubSeq(q, 1, IF n < Len(q) THEN n ELSE Len(q))

(* The WHERE of enqueue_pdf_downloads. *)
PdfEligible(tbl) ==
    {x \in DOMAIN tbl :
        /\ tbl[x].is_published = TRUE
        /\ tbl[x].raw.present
        /\ tbl[x].pdf_downloaded # TRUE}

(* Variant: the newest first. *)
SelectPdfDownloads_Desc(tbl, limit) ==
    {Limit(q, limit) :
        q \in OrderedIds(PdfEligible(tbl),
                         [x \in PdfEligible(tbl) |->
                            IF tbl[x].date_published = NULL THEN NULL
                            ELSE 0 - tbl[x].date_published])}

(* The SELECT of enqueue_pdf_downloads: every answer the query may give. *)
SelectPdfDownloads(tbl, limit) ==
    {Limit(q, limit) :
        q \in OrderedIds(PdfEligible(tbl),
                         [x \in PdfEligible(tbl) |-> tbl[x].date_published])}

(* The WHERE of enqueue_grobid. *)
GrobidEligible(tbl) ==
    {x \in DOMAIN tbl : tbl[x].pdf_downloaded = TRUE /\ tbl[x].tei_generated # TRUE}

(* Variant: the extraction lane not looked at. *)
SelectGrobid_AnyTei(tbl, limit) ==
    {Limit(q, limit) :
        q \in OrderedIds({x \in DOMAIN tbl : tbl[x].pdf_downloaded = TRUE},
                         [x \in DOMAIN tbl |-> tbl[x].pdf_downloaded_at])}

(* The SELECT of enqueue_grobid. *)
SelectGrobid(tbl, limit) ==
    {Limit(q, limit) :
        q \in OrderedIds(GrobidEligible(tbl),
                         [x \in GrobidEligible(tbl) |-> tbl[x].pdf_downloaded_at])}

(* Variant: the signatures sent as a group, all at once. *)
chain_Group(ids) == [i \in 1..Len(ids) |-> "queued"]

(* chain of the signatures, apply_async: the first is sent to the queue,    *)
(* each next one waits for its predecessor to succeed.                      *)
chain(ids) == [i \in 1..Len(ids) |-> IF i = 1 THEN "queued" ELSE "waiting"]

ChainFrame(kind, ids) ==
    [task |-> "chain", kind |-> kind, items |-> ids, st |-> chain(ids),
     retries |-> [i \in 1..Len(ids) |-> 0]]

(* The chain after an attempt of item k ended: a success sends the next     *)
(* signature, a retry sends item k again, a failure ends the chain.  The    *)
(* request of a finished item, and its retry count, are gone.               *)
Advance(f, k, ends) ==
    CASE ends = "success" ->
            [f EXCEPT !.st = [i \in DOMAIN f.st |->
                                IF i = k THEN "done"
                                ELSE IF i = k + 1 THEN "queued" ELSE f.st[i]],
                      !.retries[k] = 0]
      [] ends = "retry" ->
            [f EXCEPT !.st[k] = "queued", !.retries[k] = @ + 1]
      [] OTHER ->
            [f EXCEPT !.st[k] = "failed", !.retries[k] = 0]

IsChain(c) == c \in DOMAIN runs /\ runs[c].task = "chain"

(* enqueue_pdf_downloads(limit) *)
enqueue_pdf_downloads(c, limit) ==
    /\ c \notin DOMAIN runs
    /\ \E ids \in SelectPdfDownloads(preprints, limit) :
          runs' = IF ids = << >> THEN runs ELSE AddRun(c, ChainFrame("pdf", ids))
    /\ UNCHANGED <<preprints, sync_state, disk, registry, now, last>>

(* enqueue_grobid(limit) *)
enqueue_grobid(c, limit) ==
    /\ c \notin DOMAIN runs
    /\ \E ids \in SelectGrobid(preprints, limit) :
          runs' = IF ids = << >> THEN runs ELSE AddRun(c, ChainFrame("grobid", ids))
    /\ UNCHANGED <<preprints, sync_state, disk, registry, now, last>>

(* A client sends one work item for an id of its choice. *)
Submit(c, kind, osf_id) ==
    /\ c \notin DOMAIN runs
    /\ runs' = AddRun(c, ChainFrame(kind, <<osf_id>>))
    /\ UNCHANGED <<preprints, sync_state, disk, registry, now, last>>

(* A worker of the queue takes a signature that was sent. *)
WorkerStart(c, k) ==
    /\ IsChain(c)
    /\ k \in DOMAIN runs[c].st
    /\ runs[c].st[k] = "queued"
    /\ runs' = [runs EXCEPT ![c].st[k] = "running"]
    /\ UNCHANGED <<preprints, sync_state, disk, registry, now, last>>

(* One execution of download_single_pdf as item k of chain c. *)
DownloadItem(c, k, env, conv) ==
    /\ IsChain(c)
    /\ runs[c].kind = "pdf"
    /\ k \in DOMAIN runs[c].st
    /\ runs[c].st[k] = "running"
    /\ EnvApplies(preprints, runs[c].items[k], env)
    /\ LET b == DownloadBody(preprints, disk, runs[c].items[k], env, conv, now)
           ends == AttemptEnds(b.exc, runs[c].retries[k], PdfMaxRetries)
       IN  /\ preprints' = b.tbl
           /\ disk' = b.disk
           /\ runs' = [runs EXCEPT ![c] = Advance(@, k, ends)]
           /\ last' = [op |-> "download", id |-> runs[c].items[k], res |-> b.res,
                       calls |-> b.calls]
    /\ UNCHANGED <<sync_state, registry, now>>

(* One execution of grobid_single as item k of chain c. *)
GrobidItem(c, k, svc) ==
    /\ IsChain(c)
    /\ runs[c].kind = "grobid"
    /\ k \in DOMAIN runs[c].st
    /\ runs[c].st[k] = "running"
    /\ LET b == GrobidBody(preprints, disk, runs[c].items[k], svc, now)
           ends == AttemptEnds(b.exc, runs[c].retries[k], GrobidMaxRetries)
       IN  /\ preprints' = b.tbl
           /\ disk' = b.disk
           /\ runs' = [runs EXCEPT ![c] = Advance(@, k, ends)]
           /\ last' = [op |-> "grobid", id |-> runs[c].items[k], res |-> b.res,
                       calls |-> b.calls]
    /\ UNCHANGED <<sync_state, registry, now>>

(* A chain none of whose items is sent or running is over. *)
ChainOver(c) ==
    /\ IsChain(c)
    /\ \A k \in DOMAIN runs[c].st : runs[c].st[k] \notin {"queued", "running"}
    /\ runs' = DropRun(c)
    /\ UNCHANGED <<preprints, sync_state, disk, registry, now, last>>

NextPipe ==
    \/ \E obj \in PipeObjs : upsert_one_preprint(obj)
    \/ \E id \in PipeIds, svc \in BOOLEAN : ensureExtracted(id, svc)
    \/ \E c \in ChainIds, limit \in 0..MaxLimit : enqueue_pdf_downloads(c, limit)
    \/ \E c \in ChainIds, limit \in 0..MaxLimit : enqueue_grobid(c, limit)
    \/ \E c \in ChainIds, kind \in {"pdf", "grobid"}, id \in PipeIds : Submit(c, kind, id)
    \/ \E c \in ChainIds, k \in 1..MaxLimit : WorkerStart(c, k)
    \/ \E c \in ChainIds, k \in 1..MaxLimit, env \in Envs, conv \in BOOLEAN :
          DownloadItem(c, k, env, conv)
    \/ \E c \in ChainIds, k \in 1..MaxLimit, svc \in BOOLEAN : GrobidItem(c, k, svc)
    \/ \E c \in ChainIds : ChainOver(c)

SpecPipe == Init /\ [][NextPipe]_vars

----------------------------------------------------------------------------
(* The catch-up selections over the stores the writers of the table build *)

(* The records the store is fed with: any publish date, published or not,   *)
(* with or without a primary file.                                          *)
SelectObjs ==
    {MkObj(id, <<"a">>, 1, pub, isp, 1, rel) :
        id \in PipeIds, pub \in Times \cup {NULL}, isp \in BOOLEAN,
        rel \in {NoRel, Rel("F1", "F1")}}

(* upsert_batch of one fetched object. *)
upsert_batch(objs) ==
    /\ preprints' = UpsertBatch(preprints, objs, now)
    /\ UNCHANGED <<sync_state, disk, registry, runs, now, last>>

(* A download work item that ends with mark_downloaded(ok = True). *)
DownloadSucceeds(osf_id) ==
    /\ NeedsDownload(preprints, osf_id)
    /\ preprints' = mark_downloaded(preprints, osf_id,
                                    PdfPathOf(preprints[osf_id].provider_id, osf_id),
                                    TRUE, now)
    /\ UNCHANGED <<sync_state, disk, registry, runs, now, last>>

(* An extraction that ends with mark_tei(ok = True). *)
ExtractionSucceeds(osf_id) ==
    /\ NeedsTei(preprints, osf_id)
    /\ preprints' = mark_tei(preprints, osf_id, TRUE,
                             TeiPathOf(preprints[osf_id].provider_id, osf_id), now)
    /\ UNCHANGED <<sync_state, disk, registry, runs, now, last>>

NextSelect ==
    \/ Tick
    \/ \E obj \in SelectObjs : upsert_batch(<<obj>>)
    \/ \E id \in PipeIds : DownloadSucceeds(id)
    \/ \E id \in PipeIds : ExtractionSucceeds(id)
    \/ \E c \in ChainIds, limit \in 0..MaxLimit : enqueue_pdf_downloads(c, limit)
    \/ \E c \in ChainIds, limit \in 0..MaxLimit : enqueue_grobid(c, limit)

SpecSelect == Init /\ [][NextSelect]_vars

----------------------------------------------------------------------------
(* Properties of the download and extraction work items *)

(* Item k of chain c, of the given kind, is being executed. *)
ItemDue(c, k, kind) ==
    /\ IsChain(c)
    /\ runs[c].kind = kind
    /\ k \in DOMAIN runs[c].st
    /\ runs[c].st[k] = "running"

(* The content type the stored record's primary file resolves to. *)
ResolvesTo(osf_id) ==
    LET meta == resolve_primary_file_info_from_raw(preprints[osf_id].raw)
    IN  IF meta.url = "NULL" THEN "none"
        ELSE IF meta.ctype \in ACCEPT_PDF \/ (meta.ctype = "NULL" /\ _looks_pdf(meta.name))
        THEN "pdf"
        ELSE IF meta.ctype \in ACCEPT_DOCX \/ (meta.ctype = "NULL" /\ _looks_docx(meta.name))
        THEN "docx"
        ELSE "other"

(* C11: the download of a record whose file resolves to a content type that *)
(* is neither PDF nor DOCX reports deleted, removes the record and leaves   *)
(* no file in the record's directory, whatever was downloaded before.       *)
C11_UnsupportedTypeDeleted ==
    [][\A c \in ChainIds, k \in 1..MaxLimit, conv \in BOOLEAN :
          (/\ ItemDue(c, k, "pdf")
           /\ NeedsDownload(preprints, runs[c].items[k])
           /\ ResolvesTo(runs[c].items[k]) = "other"
           /\ DownloadItem(c, k, "ok", conv))
          => /\ last'.res = "deleted"
             /\ runs[c].items[k] \notin DOMAIN preprints'
             /\ FilesOf(disk', runs[c].items[k]) = {}]_vars

(* What the download item k of chain c does when a worker runs it. *)
DownloadOutcome(c, k, env, conv) ==
    DownloadBody(preprints, disk, runs[c].items[k], env, conv, now)

C13_DownloadedSkipped ==
    \A c \in ChainIds, k \in 1..MaxLimit, env \in Envs, conv \in BOOLEAN :
        (/\ ItemDue(c, k, "pdf")
         /\ runs[c].items[k] \in DOMAIN preprints
         /\ preprints[runs[c].items[k]].pdf_downloaded = TRUE
         /\ EnvApplies(preprints, runs[c].items[k], env))
        => LET b == DownloadOutcome(c, k, env, conv)
           IN  /\ b.res = "skipped"
               /\ b.calls = 0
               /\ b.disk = disk
               /\ b.tbl = preprints

(* A download item was skipped for a published record whose lane is set.    *)
C13_Witness ==
    /\ last.op = "download"
    /\ last.res = "skipped"
    /\ last.id \in DOMAIN preprints
    /\ preprints[last.id].is_published = TRUE
    /\ preprints[last.id].pdf_downloaded = TRUE

(* What the extraction item k of chain c does when a worker runs it. *)
GrobidOutcome(c, k, svc) ==
    GrobidBody(preprints, disk, runs[c].items[k], svc, now)

(* The extraction lane of a record: flag, timestamp and path. *)
TeiLane(tbl, osf_id) ==
    IF osf_id \in DOMAIN tbl
    THEN <<tbl[osf_id].tei_generated, tbl[osf_id].tei_generated_at, tbl[osf_id].tei_path>>
    ELSE << >>

(* C14: an extraction work item for a record that does not exist, whose     *)
(* download lane is unset, or whose extraction lane is already set reports  *)
(* skipped, makes no call to the extraction service and leaves the record's *)
(* extraction lane (flag, timestamp, path) unchanged.                       *)
C14_IneligibleExtractionSkipped ==
    \A c \in ChainIds, k \in 1..MaxLimit, svc \in BOOLEAN :
        (/\ ItemDue(c, k, "grobid")
         /\ \/ runs[c].items[k] \notin DOMAIN preprints
            \/ preprints[runs[c].items[k]].pdf_downloaded # TRUE
            \/ preprints[runs[c].items[k]].tei_generated = TRUE)
        => LET b == GrobidOutcome(c, k, svc)
           IN  /\ b.res = "skipped"
               /\ b.calls = 0
               /\ TeiLane(b.tbl, runs[c].items[k]) = TeiLane(preprints, runs[c].items[k])
               /\ b.disk = disk

(* An extraction item was skipped for a downloaded record whose extraction  *)
(* lane is already set.                                                     *)
C14_Witness ==
    /\ last.op = "grobid"
    /\ last.res = "skipped"
    /\ last.calls = 0
    /\ last.id \in DOMAIN preprints
    /\ preprints[last.id].pdf_downloaded = TRUE
    /\ preprints[last.id].tei_generated = TRUE

(* The record of an extraction item passes the three checks of grobid_single. *)
ExtractionEligible(tbl, osf_id) ==
    /\ osf_id \in DOMAIN tbl
    /\ tbl[osf_id].pdf_downloaded = TRUE
    /\ tbl[osf_id].tei_generated # TRUE

(* C15: for an eligible record, a failing extraction-service call leaves    *)
(* the extraction lane unset and the work item reports a failed result      *)
(* carrying the error; a succeeding call sets the lane with the output path.*)
C15_ExtractionOutcome ==
    \A c \in ChainIds, k \in 1..MaxLimit, svc \in BOOLEAN :
        (/\ ItemDue(c, k, "grobid")
         /\ ExtractionEligible(preprints, runs[c].items[k]))
        => LET id == runs[c].items[k]
               b == GrobidOutcome(c, k, svc)
           IN  IF svc /\ PdfPathOf(preprints[id].provider_id, id) \in DOMAIN disk
               THEN /\ b.res = "ok"
                    /\ b.tbl[id].tei_generated = TRUE
                    /\ b.tbl[id].tei_path = TeiPathOf(preprints[id].provider_id, id)
               ELSE /\ b.res = "failed"
                    /\ TeiLane(b.tbl, id) = TeiLane(preprints, id)

(***************************************************************************)
(* Properties of the catch-up selections                                   *)
(***************************************************************************)

(* a comes before b in an oldest-first order that puts unknown dates last. *)
Before(a, b) == a # NULL /\ (b = NULL \/ a < b)

Range(q) == {q[i] : i \in DOMAIN q}

(* q holds at most limit distinct ids of E, oldest first by key, and no id  *)
(* of E that comes before a selected one is missing from it.                *)
OldestFirstSelection(q, E, key, limit) ==
    /\ Len(q) <= limit
    /\ Range(q) \subseteq E
    /\ \A i, j \in DOMAIN q : i # j => q[i] # q[j]
    /\ \A i, j \in DOMAIN q : i < j => ~Before(key[q[j]], key[q[i]])
    /\ \A x \in E \ Range(q) : \A i \in DOMAIN q : ~Before(key[x], key[q[i]])

(* C16: for every store and every limit, the download catch-up selection    *)
(* returns at most limit ids, each published, with a primary-file reference *)
(* and an unset download lane, oldest-published first, and leaves out no    *)
(* eligible record older than a selected one.                               *)
C16_DownloadSelection ==
    \A limit \in 0..MaxLimit : \A q \in SelectPdfDownloads(preprints, limit) :
        OldestFirstSelection(q,
            {x \in DOMAIN preprints :
                /\ preprints[x].is_published = TRUE
                /\ preprints[x].raw.present
                /\ preprints[x].pdf_downloaded # TRUE},
            [x \in DOMAIN preprints |-> preprints[x].date_published],
            limit)

(* A download chain of one item was dispatched with both records of the     *)
(* store eligible; the chain's item is the one that comes first.            *)
C16_Witness ==
    /\ IsChain("c1")
    /\ runs["c1"].kind = "pdf"
    /\ Len(runs["c1"].items) = 1
    /\ PdfEligible(preprints) = PipeIds
    /\ \A x \in PipeIds \ {runs["c1"].items[1]} :
          Before(preprints[runs["c1"].items[1]].date_published,
                 preprints[x].date_published)

(* The records the extraction catch-up may take: download lane set,         *)
(* extraction lane unset.                                                   *)
AwaitingExtraction ==
    {x \in DOMAIN preprints :
        preprints[x].pdf_downloaded = TRUE /\ preprints[x].tei_generated # TRUE}

(* C17: for every store and every limit, the extraction catch-up selection  *)
(* returns at most limit ids, each with the download lane set and the       *)
(* extraction lane unset, oldest-downloaded first; enqueue_grobid           *)
(* dispatches exactly one work item per selected record, in that order, and *)
(* none when no record is eligible.                                         *)
C17_ExtractionSelectionDispatched ==
    /\ [](\A limit \in 0..MaxLimit : \A q \in SelectGrobid(preprints, limit) :
            OldestFirstSelection(q, AwaitingExtraction,
                [x \in DOMAIN preprints |-> preprints[x].pdf_downloaded_at], limit))
    /\ [][\A c \in ChainIds, limit \in 0..MaxLimit :
            enqueue_grobid(c, limit)
            => IF AwaitingExtraction = {} \/ limit = 0
               THEN runs' = runs
               ELSE /\ c \in DOMAIN runs'
                    /\ runs'[c].kind = "grobid"
                    /\ runs'[c].items \in SelectGrobid(preprints, limit)
                    /\ DOMAIN runs'[c].st = DOMAIN runs'[c].items
                    /\ \A i, j \in DOMAIN runs'[c].items :
                          i # j => runs'[c].items[i] # runs'[c].items[j]]_vars

(* An extraction chain of two items was dispatched; its first item was      *)
(* downloaded before its second.                                            *)
C17_Witness ==
    /\ IsChain("c1")
    /\ runs["c1"].kind = "grobid"
    /\ Len(runs["c1"].items) = 2
    /\ AwaitingExtraction = PipeIds
    /\ preprints[runs["c1"].items[1]].pdf_downloaded_at
          < preprints[runs["c1"].items[2]].pdf_downloaded_at

(***************************************************************************)
(* Properties of the catch-up chains                                       *)
(***************************************************************************)

(* C18: within one catch-up batch the work items run as a strict sequential *)
(* chain: an item is sent to a worker only when every item before it has    *)
(* completed, retries included, so at most one item of the batch is queued  *)
(* or executing at any time, however many workers serve the queue.          *)
C18_ChainSequential ==
    \A c \in DOMAIN runs :
        runs[c].task = "chain"
        => /\ \A k \in DOMAIN runs[c].st :
                 runs[c].st[k] \in {"queued", "running"}
                 => \A j \in 1..(k - 1) : runs[c].st[j] = "done"
           /\ Cardinality({k \in DOMAIN runs[c].st :
                              runs[c].st[k] \in {"queued", "running"}}) <= 1

(* The first item of a two-item chain is executing again after a retry and  *)
(* the second has not been sent.                                            *)
C18_Witness ==
    /\ IsChain("c1")
    /\ Len(runs["c1"].items) = 2
    /\ runs["c1"].st = <<"running", "waiting">>
    /\ runs["c1"].retries[1] > 0

(* How the attempt of the download item k of chain c ends. *)
DownloadAttemptEnds(c, k, env, conv) ==
    AttemptEnds(DownloadOutcome(c, k, env, conv).exc, runs[c].retries[k], PdfMaxRetries)

(* How the attempt of the extraction item k of chain c ends. *)
GrobidAttemptEnds(c, k, svc) ==
    AttemptEnds(GrobidOutcome(c, k, svc).exc, runs[c].retries[k], GrobidMaxRetries)

(* A download item is executed again exactly after a network failure of its *)
(* resolution or download call, while fewer than PdfMaxRetries retries were *)
(* made.                                                                    *)
DownloadRetriedIffNetwork ==
    \A c \in ChainIds, k \in 1..MaxLimit, env \in Envs, conv \in BOOLEAN :
        (/\ ItemDue(c, k, "pdf")
         /\ EnvApplies(preprints, runs[c].items[k], env))
        => /\ runs[c].retries[k] <= PdfMaxRetries
           /\ DownloadAttemptEnds(c, k, env, conv) = "retry"
              <=> /\ env \in {"net_resolve", "net_download"}
                  /\ runs[c].retries[k] < PdfMaxRetries

(* An extraction item is executed again exactly after a failure of its call *)
(* to the extraction service, while fewer than GrobidMaxRetries retries     *)
(* were made.                                                               *)
GrobidRetriedIffNetwork ==
    \A c \in ChainIds, k \in 1..MaxLimit, svc \in BOOLEAN :
        (/\ ItemDue(c, k, "grobid")
         /\ ExtractionEligible(preprints, runs[c].items[k])
         /\ PdfPathOf(preprints[runs[c].items[k]].provider_id, runs[c].items[k])
               \in DOMAIN disk)
        => /\ runs[c].retries[k] <= GrobidMaxRetries
           /\ GrobidAttemptEnds(c, k, svc) = "retry"
              <=> /\ ~svc
                  /\ runs[c].retries[k] < GrobidMaxRetries

(* C19: a work item is executed again only after a network-classified error *)
(* and at most a bounded number of times (3 for download and extraction     *)
(* items): a network failure of the item's own network call (resolution or  *)
(* download of the file, submission to the extraction service) triggers a   *)
(* retry until the bound is reached, and no other error is retried.         *)
C19_RetriedIffNetworkError ==
    DownloadRetriedIffNetwork /\ GrobidRetriedIffNetwork

(* C20: when a work item of a catch-up chain ends in terminal failure        *)
(* (retries exhausted, or an error that is not retried) the batch goes on:  *)
(* the next item of the chain is sent to a worker, not left waiting.        *)
C20_FailureDoesNotAbort ==
    \A c \in DOMAIN runs :
        runs[c].task = "chain"
        => \A k \in DOMAIN runs[c].st :
              (runs[c].st[k] = "failed" /\ k < Len(runs[c].items))
              => runs[c].st[k + 1] # "waiting"

----------------------------------------------------------------------------
(* iter_preprints.py: the fetcher, one page request at a time *)

MaxPageLen == 3    \* records per server page range over 0..MaxPageLen
MaxPages == 3      \* a fetch follows 1..MaxPages pages
MaxBatchSize == 4  \* batch_size of a fetch ranges over 1..MaxBatchSize

BackoffStart == 2  \* backoff = 2.0
BackoffCap == 60   \* min(backoff, 60)

FetchIds == {"f1"}

(* The page lengths a server may answer with, one per page. *)
PageLens == UNION {[1..n -> 0..MaxPageLen] : n \in 1..MaxPages}

(* The pages of the given lengths; the records are numbered in server order. *)
RECURSIVE PagesFrom(_, _)
PagesFrom(lens, first) ==
    IF lens = << >> THEN << >>
    ELSE <<[i \in 1..Head(lens) |-> first + i - 1]>>
            \o PagesFrom(Tail(lens), first + Head(lens))

RECURSIVE Concat(_)
Concat(seqs) == IF seqs = << >> THEN << >> ELSE Head(seqs) \o Concat(Tail(seqs))

(* The generator at its first request: url set, batch empty; _fetch_page    *)
(* starts each call with backoff = 2.0.                                     *)
FetchFrame(pages, batch_size, net) ==
    [task |-> "fetch", served |-> pages, pages |-> pages, batch |-> << >>,
     batch_size |-> batch_size, emitted |-> << >>, pc |-> "request",
     backoff |-> BackoffStart, sleep_s |-> 0, net |-> net]

(* Variant: what is left over after a full batch is thrown away. *)
LoopTurn_DropsRest(f, items) ==
    LET b == f.batch \o items
    IN  IF Len(b) >= f.batch_size
        THEN [f EXCEPT !.emitted = Append(@, SubSeq(b, 1, f.batch_size)),
                       !.batch = << >>]
        ELSE [f EXCEPT !.batch = b]

(* One turn of the while loop after the page arrived: the items appended,   *)
(* at most one batch of batch_size yielded, the rest kept.                  *)
LoopTurn(f, items) ==
    LET b == f.batch \o items
    IN  IF Len(b) >= f.batch_size
        THEN [f EXCEPT !.emitted = Append(@, SubSeq(b, 1, f.batch_size)),
                       !.batch = SubSeq(b, f.batch_size + 1, Len(b))]
        ELSE [f EXCEPT !.batch = b]

(* After the loop: the remainder yielded as it is. *)
Flush(f) ==
    IF f.batch # << >>
    THEN [f EXCEPT !.emitted = Append(@, f.batch), !.batch = << >>]
    ELSE f

IsFetch(r) == r \in DOMAIN runs /\ runs[r].task = "fetch"

(* iter_preprints_batches is called and reaches its first request. *)
FetchStart(r, lens, batch_size, net) ==
    /\ r \notin DOMAIN runs
    /\ runs' = AddRun(r, FetchFrame(PagesFrom(lens, 1), batch_size, net))
    /\ UNCHANGED <<preprints, sync_state, disk, registry, now, last>>

(* _fetch_page returns the page; the loop turn runs and url becomes the     *)
(* next link, or None after the last page.                                  *)
FetchPageOk(r) ==
    /\ IsFetch(r)
    /\ runs[r].pc = "request"
    /\ runs[r].net = "up"
    /\ runs' = [runs EXCEPT ![r] =
          [LoopTurn(@, Head(@.pages)) EXCEPT
              !.pages = Tail(@),
              !.pc = IF Tail(runs[r].pages) = << >> THEN "flush" ELSE "request",
              !.backoff = BackoffStart,
              !.sleep_s = 0]]
    /\ UNCHANGED <<preprints, sync_state, disk, registry, now, last>>

(* The request times out or the connection fails: _fetch_page sleeps        *)
(* min(backoff, 60).                                                        *)
FetchTimeout(r) ==
    /\ IsFetch(r)
    /\ runs[r].pc = "request"
    /\ runs' = [runs EXCEPT ![r].pc = "sleep",
                            ![r].sleep_s = IF runs[r].backoff < BackoffCap
                                           THEN runs[r].backoff ELSE BackoffCap]
    /\ UNCHANGED <<preprints, sync_state, disk, registry, now, last>>

(* After the sleep: backoff doubled and the request made again.  A backoff  *)
(* past the cap is kept as it is: only min(backoff, 60) is ever used.       *)
FetchWake(r) ==
    /\ IsFetch(r)
    /\ runs[r].pc = "sleep"
    /\ runs' = [runs EXCEPT ![r].pc = "request",
                            ![r].backoff = IF @ >= BackoffCap THEN @ ELSE @ * 2]
    /\ UNCHANGED <<preprints, sync_state, disk, registry, now, last>>

(* raise_for_status raises for an error status: the exception leaves        *)
(* _fetch_page and the generator.                                           *)
FetchHttpError(r) ==
    /\ IsFetch(r)
    /\ runs[r].pc = "request"
    /\ runs[r].net = "up"
    /\ runs' = [runs EXCEPT ![r].pc = "failed"]
    /\ UNCHANGED <<preprints, sync_state, disk, registry, now, last>>

(* The loop is left: the remainder is flushed and the generator ends. *)
FetchFlush(r) ==
    /\ IsFetch(r)
    /\ runs[r].pc = "flush"
    /\ runs' = [runs EXCEPT ![r] = [Flush(@) EXCEPT !.pc = "done"]]
    /\ UNCHANGED <<preprints, sync_state, disk, registry, now, last>>

(* The caller drops the generator. *)
FetchEnd(r) ==
    /\ IsFetch(r)
    /\ runs[r].pc \in {"done", "failed"}
    /\ runs' = DropRun(r)
    /\ UNCHANGED <<preprints, sync_state, disk, registry, now, last>>

NextFetch ==
    \/ \E r \in FetchIds, lens \in PageLens, bs \in 1..MaxBatchSize, net \in {"up", "down"} :
          FetchStart(r, lens, bs, net)
    \/ \E r \in FetchIds : FetchPageOk(r)
    \/ \E r \in FetchIds : FetchTimeout(r)
    \/ \E r \in FetchIds : FetchWake(r)
    \/ \E r \in FetchIds : FetchHttpError(r)
    \/ \E r \in FetchIds : FetchFlush(r)
    \/ \E r \in FetchIds : FetchEnd(r)

SpecFetch == Init /\ [][NextFetch]_vars

(* The same, with every step that can be taken eventually taken. *)
SpecFetchFair == SpecFetch /\ WF_vars(NextFetch)

----------------------------------------------------------------------------
(* Properties of the fetcher *)

(* C21: every batch the fetcher emits except the last holds exactly         *)
(* batch_size records, the last (the flushed remainder) holds between 1 and *)
(* batch_size records, and no batch is larger than batch_size.              *)
C21_BatchesOfBatchSize ==
    \A r \in FetchIds :
        IsFetch(r)
        => LET e == runs[r].emitted
               n == runs[r].batch_size
           IN  /\ \A i \in DOMAIN e : Len(e[i]) >= 1 /\ Len(e[i]) <= n
               /\ \A i \in DOMAIN e :
                     (i < Len(e) \/ runs[r].pc # "done") => Len(e[i]) = n

(* C22: a fetch that runs to exhaustion neither skips nor duplicates: the   *)
(* concatenation of the emitted batches is, in order, the concatenation of  *)
(* the records of every page reached from the first page.                   *)
C22_NoSkipNoDuplicate ==
    \A r \in FetchIds :
        (IsFetch(r) /\ runs[r].pc = "done")
        => Concat(runs[r].emitted) = Concat(runs[r].served)

(* Two pages of MaxPageLen and one record fetched with a batch_size of the  *)
(* two together: one batch of all the records.                              *)
C22_Witness ==
    /\ IsFetch("f1")
    /\ runs["f1"].pc = "done"
    /\ Len(runs["f1"].served) = 2
    /\ Len(runs["f1"].served[1]) = MaxPageLen
    /\ Len(runs["f1"].served[2]) = 1
    /\ runs["f1"].batch_size = MaxPageLen + 1
    /\ Len(runs["f1"].emitted) = 1
    /\ Len(runs["f1"].emitted[1]) = MaxPageLen + 1

(* C29: a page fetch gives up after a bounded number of attempts: against a *)
(* registry that times out or refuses the connection on every request, the *)
(* fetch eventually ends with a terminal failure.                           *)
C29_FetchGivesUp ==
    \A r \in FetchIds :
        (IsFetch(r) /\ runs[r].net = "down")
        ~> (r \notin DOMAIN runs \/ runs[r].pc = "failed")

----------------------------------------------------------------------------
(* tasks.py: the incremental sync run again *)

(* The objects the registry may come to serve, with and without a modified  *)
(* timestamp.                                                               *)
ResyncObjs ==
    {MkObj(id, <<"a">>, mod, pub, TRUE, 1, Rel("F1", "F1")) :
        id \in RegIds, pub \in Times, mod \in {NULL, 1}}

(* The loop of sync_from_osf over the batches of one fetch: the table and   *)
(* max_published_seen it ends with.                                         *)
RECURSIVE SyncLoop(_, _, _, _)
SyncLoop(tbl, seen, batches, t) ==
    IF batches = << >> THEN [tbl |-> tbl, seen |-> seen]
    ELSE SyncLoop(UpsertBatch(tbl, Head(batches), t), TrackMax(seen, Head(batches)),
                  Tail(batches), t)

(* sync_from_osf run from start to return at time t: every store and        *)
(* sync_state it may leave, one for each order the registry may answer in.  *)
sync_from_osf(tbl, ss, reg, subject_text, batch_size, t) ==
    LET source_key == SourceKeyOf(subject_text)
        cur == _get_cursor(ss, source_key)
        since_dt == IF cur = NULL THEN t - LookbackDays * DayLen ELSE cur
        since_iso_date == DateOf(since_dt)
    IN  {LET r == SyncLoop(tbl, NULL, iter_preprints_batches(records, batch_size), t)
         IN  [tbl |-> r.tbl,
              ss |-> IF r.seen # NULL THEN _set_cursor(ss, source_key, r.seen, t) ELSE ss] :
            records \in SortedSeqs(Matching(reg, since_iso_date, NULL, subject_text))}

NextResync ==
    \/ Tick
    \/ \E obj \in ResyncObjs : RegistryPublish(obj)
    \/ \E r \in RunIds, bs \in 1..MaxBatch : SyncStart(r, "NULL", bs)
    \/ \E r \in RunIds : SyncBatch(r)
    \/ \E r \in RunIds : SyncFinish(r)
    \/ \E r \in RunIds : SyncRaise(r)

SpecResync == Init /\ [][NextResync]_vars

(* The registry serves for run r what the run fetched: it has not changed   *)
(* since the run asked.                                                     *)
RegistryAsFetched(r) ==
    runs[r].fetched = Matching(registry, DateOf(runs[r].since_dt), NULL, runs[r].subject)

(* C23: the incremental sync is idempotent and safe to re-trigger: when a   *)
(* run returns - after failed runs or overlapping another run - a further   *)
(* run for the same source key against the unchanged registry leaves every  *)
(* stored record unchanged apart from bookkeeping timestamps, adds no       *)
(* record, and leaves the value of the cursor unchanged.                    *)
C23_ResyncChangesNothing ==
    [][\A r \in RunIds :
          (Returns(r, "sync_from_osf") /\ RegistryAsFetched(r))
          => \A bs \in 1..MaxBatch, t \in Clock :
                t >= now
                => \A again \in sync_from_osf(preprints', sync_state', registry',
                                              runs[r].subject, bs, t) :
                      /\ SameButBookkeeping(again.tbl, preprints')
                      /\ _get_cursor(again.ss, runs[r].key)
                            = _get_cursor(sync_state', runs[r].key)]_vars

(* A run that started from the cursor an earlier run left has upserted all  *)
(* it fetched, a record without modified timestamp among it, while another  *)
(* run for the same key is still under way.                                 *)
C23_Witness ==
    /\ DOMAIN runs = RunIds
    /\ runs["r1"].key = runs["r2"].key
    /\ runs["r2"].pending # << >>
    /\ runs["r1"].task = "sync_from_osf"
    /\ runs["r1"].pending = << >>
    /\ runs["r1"].since_dt = _get_cursor(sync_state, runs["r1"].key)
    /\ runs["r1"].max_published_seen = runs["r1"].since_dt
    /\ RegistryAsFetched("r1")
    /\ \E o \in runs["r1"].fetched : o.date_modified = NULL

----------------------------------------------------------------------------
(* The incremental sync and the download catch-up over one store *)

(* Records the registry serves: their file is a PDF, or of a type the       *)
(* download policy deletes the record for.                                  *)
LifeObjs ==
    {MkObj(id, <<"a">>, 1, 1, TRUE, 1, rel) :
        id \in PipeIds, rel \in {Rel("F1", "F1"), Rel("F4", "F4")}}

NextLife ==
    \/ \E obj \in LifeObjs : RegistryPublish(obj)
    \/ \E bs \in 1..MaxBatch : SyncStart("r1", "NULL", bs)
    \/ SyncBatch("r1")
    \/ SyncFinish("r1")
    \/ \E c \in ChainIds, limit \in 1..MaxLimit : enqueue_pdf_downloads(c, limit)
    \/ \E c \in ChainIds, limit \in 1..MaxLimit : enqueue_grobid(c, limit)
    \/ \E c \in ChainIds, k \in 1..MaxLimit : WorkerStart(c, k)
    \/ \E c \in ChainIds, k \in 1..MaxLimit, conv \in BOOLEAN : DownloadItem(c, k, "ok", conv)
    \/ \E c \in ChainIds, k \in 1..MaxLimit, svc \in BOOLEAN : GrobidItem(c, k, svc)
    \/ \E c \in ChainIds : ChainOver(c)

SpecLife == Init /\ [][NextLife]_vars

(* C24: a record the download pipeline deleted is out of reprocessing for   *)
(* good: whatever incremental syncs and catch-up jobs follow the deletion,  *)
(* no work item for the record's id is dispatched again.                    *)
C24_DeletedNeverSelectedAgain ==
    (last.op = "download" /\ last.res = "deleted")
    => \A c \in DOMAIN runs :
          runs[c].task = "chain"
          => \A k \in DOMAIN runs[c].items :
                runs[c].items[k] = last.id => runs[c].st[k] \in {"done", "failed"}

----------------------------------------------------------------------------
(* celery_app.py: the periodic schedule *)

(* dict.update *)
DictUpdate(d, e) ==
    [k \in DOMAIN d \cup DOMAIN e |-> IF k \in DOMAIN e THEN e[k] ELSE d[k]]

PdfEntry == [k \in {"queue-pdf-downloads-daily"} |-> "enqueue_pdf_downloads"]
SyncEntry == [k \in {"osf-live-sync-daily"} |-> "sync_from_osf"]
GrobidEntry == [k \in {"queue-grobid-daily"} |-> "enqueue_grobid"]

(* app.conf.beat_schedule.update of the download entry on the empty default *)
BeatAfterPdfUpdate == DictUpdate(EmptyTable, PdfEntry)

(* app.conf.beat_schedule = {...}: the assignment replaces the dictionary. *)
BeatAfterAssignment == SyncEntry

(* app.conf.beat_schedule.update of the extraction entry: the schedule the  *)
(* beat process runs with.                                                  *)
beat_schedule == DictUpdate(BeatAfterAssignment, GrobidEntry)

(* The beat process sends the task of a schedule entry: the sync with its   *)
(* default arguments, an enqueue with its limit.                            *)
BeatFire(e) ==
    IF beat_schedule[e] = "sync_from_osf"
    THEN SyncStart("r1", "NULL", MaxBatch)
    ELSE IF beat_schedule[e] = "enqueue_grobid"
    THEN enqueue_grobid("c1", MaxLimit)
    ELSE enqueue_pdf_downloads("c1", MaxLimit)

(* An operator sends the download catch-up by hand. *)
OperatorEnqueuesDownloads == enqueue_pdf_downloads("c1", MaxLimit)

(* The steps of the workers. *)
WorkerSteps ==
    \/ SyncBatch("r1")
    \/ SyncFinish("r1")
    \/ \E k \in 1..MaxLimit : WorkerStart("c1", k)
    \/ \E k \in 1..MaxLimit : DownloadItem("c1", k, "ok", TRUE)
    \/ \E k \in 1..MaxLimit : GrobidItem("c1", k, TRUE)
    \/ ChainOver("c1")

NextBeat ==
    \/ \E obj \in LifeObjs : RegistryPublish(obj)
    \/ \E e \in DOMAIN beat_schedule : BeatFire(e)
    \/ OperatorEnqueuesDownloads
    \/ WorkerSteps

SpecBeat == Init /\ [][NextBeat]_vars

(* Every entry of the schedule keeps firing and the workers keep working;   *)
(* nothing is assumed of the operator.                                      *)
SpecBeatFair ==
    /\ SpecBeat
    /\ \A e \in DOMAIN beat_schedule : WF_vars(BeatFire(e))
    /\ WF_vars(WorkerSteps)

(* A download chain holds a work item for the record. *)
DispatchedForDownload(id) ==
    \E c \in DOMAIN runs :
        /\ runs[c].task = "chain"
        /\ runs[c].kind = "pdf"
        /\ id \in Range(runs[c].items)

(* C25: the periodic schedule in effect fires the download catch-up, like  *)
(* the incremental sync and the extraction catch-up, so that a published    *)
(* record with a primary-file reference and an unset download lane is       *)
(* eventually dispatched for download without operator action.              *)
C25_EligibleEventuallyDispatched ==
    \A id \in PipeIds : (id \in PdfEligible(preprints)) ~> DispatchedForDownload(id)

----------------------------------------------------------------------------
(* A download work item statement by statement, with worker crashes *)

ItemIds == {"w1"}

(* _download_to: the temporary file next to the target. *)
TmpPathOf(path) == [path EXCEPT ![Len(path)] = @ \o ".tmp"]

(* The message as it is delivered: the task at its first statement.  tbl0   *)
(* and disk0 are the store and the disk the first delivery found.           *)
ItemFrame(osf_id, conv, tbl0, disk0, crashed) ==
    [task |-> "item", id |-> osf_id, conv |-> conv, pc |-> "select",
     raw |-> NoRel, provider_id |-> "NULL", ok |-> FALSE, path |-> NoPath,
     tbl0 |-> tbl0, disk0 |-> disk0, crashed |-> crashed]

IsItem(w) == w \in DOMAIN runs /\ runs[w].task = "item"

(* The branch ensure_pdf_available_or_delete takes for a payload. *)
BranchOf(raw) ==
    LET meta == resolve_primary_file_info_from_raw(raw)
    IN  IF meta.url = "NULL" THEN "none"
        ELSE IF meta.ctype \in ACCEPT_PDF \/ (meta.ctype = "NULL" /\ _looks_pdf(meta.name))
        THEN "pdf"
        ELSE IF meta.ctype \in ACCEPT_DOCX \/ (meta.ctype = "NULL" /\ _looks_docx(meta.name))
        THEN "docx"
        ELSE "other"

(* The next durable effect of the item at f.pc: the frame, the table and    *)
(* the disk after it.                                                       *)
ItemStepResult(f, tbl, d, t) ==
    LET url == resolve_primary_file_info_from_raw(f.raw).url
        pdf_path == PdfPathOf(f.provider_id, f.id)
        docx_path == DocxPathOf(f.provider_id, f.id)
        same == [f |-> f, tbl |-> tbl, disk |-> d]
    IN  CASE f.pc = "select" ->
               IF ~NeedsDownload(tbl, f.id)
               THEN [same EXCEPT !.f.pc = "done"]
               ELSE [same EXCEPT !.f.pc = "resolve", !.f.raw = tbl[f.id].raw,
                                 !.f.provider_id = tbl[f.id].provider_id]
          [] f.pc = "resolve" ->
               CASE BranchOf(f.raw) = "pdf" -> [same EXCEPT !.f.pc = "pdf_tmp"]
                 [] BranchOf(f.raw) = "docx" -> [same EXCEPT !.f.pc = "docx_tmp"]
                 [] OTHER -> [same EXCEPT !.f.pc = "mark",
                                          !.tbl = delete_preprint(tbl, f.id)]
          [] f.pc = "pdf_tmp" ->
               [same EXCEPT !.f.pc = "pdf_rename",
                            !.disk = WriteFile(d, TmpPathOf(pdf_path), url)]
          [] f.pc = "pdf_rename" ->
               [same EXCEPT !.f.pc = "mark", !.f.ok = TRUE, !.f.path = pdf_path,
                            !.disk = WriteFile(RemoveFile(d, TmpPathOf(pdf_path)),
                                               pdf_path, d[TmpPathOf(pdf_path)])]
          [] f.pc = "docx_tmp" ->
               [same EXCEPT !.f.pc = "docx_rename",
                            !.disk = WriteFile(d, TmpPathOf(docx_path), url)]
          [] f.pc = "docx_rename" ->
               [same EXCEPT !.f.pc = "convert",
                            !.disk = WriteFile(RemoveFile(d, TmpPathOf(docx_path)),
                                               docx_path, d[TmpPathOf(docx_path)])]
          [] f.pc = "convert" ->
               [same EXCEPT !.f.pc = "unlink_docx",
                            !.disk = IF f.conv THEN WriteFile(d, pdf_path, d[docx_path])
                                     ELSE d]
          [] f.pc = "unlink_docx" ->
               IF f.conv
               THEN [same EXCEPT !.f.pc = "mark", !.f.ok = TRUE, !.f.path = pdf_path,
                                 !.disk = RemoveFile(d, docx_path)]
               ELSE [same EXCEPT !.f.pc = "delete", !.disk = RemoveFile(d, docx_path)]
          [] f.pc = "delete" ->
               [same EXCEPT !.f.pc = "unlink_pdf", !.tbl = delete_preprint(tbl, f.id)]
          [] f.pc = "unlink_pdf" ->
               [same EXCEPT !.f.pc = "mark", !.disk = RemoveFile(d, pdf_path)]
          [] OTHER ->
               [same EXCEPT !.f.pc = "done",
                            !.tbl = mark_downloaded(tbl, f.id, f.path, f.ok, t)]

(* The sync writes a record while no item is in flight. *)
UpsertWhileIdle(obj) ==
    /\ DOMAIN runs = {}
    /\ upsert_batch(<<obj>>)

(* A download item is delivered to a worker. *)
ItemDeliver(w, osf_id, conv) ==
    /\ w \notin DOMAIN runs
    /\ runs' = AddRun(w, ItemFrame(osf_id, conv, preprints, disk, FALSE))
    /\ UNCHANGED <<preprints, sync_state, disk, registry, now, last>>

(* The worker runs the item up to its next durable effect. *)
ItemStep(w) ==
    /\ IsItem(w)
    /\ runs[w].pc # "done"
    /\ LET r == ItemStepResult(runs[w], preprints, disk, now)
       IN  /\ runs' = [runs EXCEPT ![w] = r.f]
           /\ preprints' = r.tbl
           /\ disk' = r.disk
    /\ UNCHANGED <<sync_state, registry, now, last>>

(* The worker dies before it acknowledged the message (task_acks_late): the *)
(* broker delivers the message again and the task starts over on what the   *)
(* dead worker left in the store and on the disk.                           *)
ItemCrash(w) ==
    /\ IsItem(w)
    /\ runs[w].pc \notin {"select", "done"}
    /\ runs' = [runs EXCEPT ![w] =
                   ItemFrame(@.id, @.conv, @.tbl0, @.disk0, TRUE)]
    /\ UNCHANGED <<preprints, sync_state, disk, registry, now, last>>

(* The task returned and the message is acknowledged. *)
ItemAck(w) ==
    /\ IsItem(w)
    /\ runs[w].pc = "done"
    /\ runs' = DropRun(w)
    /\ UNCHANGED <<preprints, sync_state, disk, registry, now, last>>

NextCrash ==
    \/ \E obj \in PipeObjs : UpsertWhileIdle(obj)
    \/ \E w \in ItemIds, id \in PipeIds, conv \in BOOLEAN : ItemDeliver(w, id, conv)
    \/ \E w \in ItemIds : ItemStep(w)
    \/ \E w \in ItemIds : ItemCrash(w)
    \/ \E w \in ItemIds : ItemAck(w)

SpecCrash == Init /\ [][NextCrash]_vars

(* An item that returned left the store and the disk as the uninterrupted   *)
(* execution of download_single_pdf from the first delivery's state does.   *)
AsUninterrupted(w) ==
    LET e == DownloadBody(runs[w].tbl0, runs[w].disk0, runs[w].id, "ok", runs[w].conv, now)
    IN  preprints = e.tbl /\ disk = e.disk

(* The statement-by-statement item without a crash is the atomic one. *)
UncrashedAsUninterrupted ==
    \A w \in ItemIds :
        (IsItem(w) /\ runs[w].pc = "done" /\ ~runs[w].crashed) => AsUninterrupted(w)

(* C26: a worker crash at any point inside a download work item needs no    *)
(* manual cleanup: the item executed again from what the crash left ends in *)
(* the same record state and the same files as an uninterrupted execution.  *)
C26_CrashNeedsNoCleanup ==
    \A w \in ItemIds :
        (IsItem(w) /\ runs[w].pc = "done") => AsUninterrupted(w)

----------------------------------------------------------------------------
(* The download item when the file-metadata lookup answers 404 *)

(* Records whose file relation carries a link, only a file id, or neither. *)
MissingObjs ==
    {MkObj(id, <<"a">>, 1, 1, TRUE, 1, rel) :
        id \in PipeIds,
        rel \in {Rel("F1", "F1"), Rel("NULL", "F1"), Rel("NULL", "NULL")}}

(* The status of the answer to the file-metadata GET. *)
LookupStatuses == {"200", "404"}

(* Response.raise_for_status in _get_file_json_via_href and _via_id. *)
raise_for_status(status) == IF status = "200" THEN "none" ELSE "HTTPError"

(* What happens to the attempt: an HTTPError is a RequestException raised   *)
(* out of the file lookup, when a lookup is issued at all.                  *)
LookupEnv(tbl, osf_id, status) ==
    IF /\ NeedsDownload(tbl, osf_id)
       /\ ResolveCalls(tbl[osf_id].raw) = 1
       /\ raise_for_status(status) = "HTTPError"
    THEN "net_resolve"
    ELSE "ok"

(* download_single_pdf when the lookup, if issued, is answered with status. *)
DownloadItemLookup(c, k, status) ==
    /\ IsChain(c)
    /\ k \in DOMAIN runs[c].st
    /\ DownloadItem(c, k, LookupEnv(preprints, runs[c].items[k], status), TRUE)

NextMissing ==
    \/ \E obj \in MissingObjs : upsert_one_preprint(obj)
    \/ \E c \in ChainIds, limit \in 1..MaxLimit : enqueue_pdf_downloads(c, limit)
    \/ \E c \in ChainIds, k \in 1..MaxLimit : WorkerStart(c, k)
    \/ \E c \in ChainIds, k \in 1..MaxLimit, status \in LookupStatuses :
          DownloadItemLookup(c, k, status)
    \/ \E c \in ChainIds : ChainOver(c)

SpecMissing == Init /\ [][NextMissing]_vars

(* The attempt of the due item k when the lookup is answered with status. *)
LookupOutcome(c, k, status) ==
    DownloadOutcome(c, k, LookupEnv(preprints, runs[c].items[k], status), TRUE)

(* The attempt deletes the record and is not executed again. *)
DeletesWithoutRetry(c, k, status) ==
    LET b == LookupOutcome(c, k, status)
    IN  /\ b.res = "deleted"
        /\ runs[c].items[k] \notin DOMAIN b.tbl
        /\ AttemptEnds(b.exc, runs[c].retries[k], PdfMaxRetries) # "retry"

(* A due item whose record still needs its download. *)
DueAndNeeded(c, k) ==
    /\ ItemDue(c, k, "pdf")
    /\ NeedsDownload(preprints, runs[c].items[k])

(* The half about the unresolved relation: no link and no file id. *)
UnresolvedRelationDeletes ==
    \A c \in ChainIds, k \in 1..MaxLimit, status \in LookupStatuses :
        (DueAndNeeded(c, k) /\ ResolveCalls(preprints[runs[c].items[k]].raw) = 0)
        => DeletesWithoutRetry(c, k, status)

(* C27: in the download stage a missing resource, a 404 from the file       *)
(* lookup or a relation that resolves to nothing, deletes the record and is *)
(* not retried as a network error.                                          *)
C27_MissingResourceDeletes ==
    \A c \in ChainIds, k \in 1..MaxLimit, status \in LookupStatuses :
        (/\ DueAndNeeded(c, k)
         /\ \/ ResolveCalls(preprints[runs[c].items[k]].raw) = 0
            \/ status = "404")
        => DeletesWithoutRetry(c, k, status)

----------------------------------------------------------------------------
(* upsert_batch with a statement that fails *)

MaxTxnLen == 2

TxnObjs ==
    {MkObj(id, <<"a">>, mod, 1, TRUE, 1, Rel("F1", "F1")) :
        id \in PipeIds, mod \in 1..2}

(* The batches handed to upsert_batch. *)
TxnBatches == UNION {[1..n -> TxnObjs] : n \in 1..MaxTxnLen}

(* upsert_batch when conn.execute raises at row fail_at (0: at none): the   *)
(* rows are executed inside one engine.begin() block, which commits when    *)
(* the block is left normally and rolls back when an exception leaves it.   *)
upsert_batch_txn(tbl, objs, fail_at, t) ==
    IF fail_at \in 1..Len(objs)
    THEN [exc |-> "PersistenceError", tbl |-> tbl]
    ELSE [exc |-> "none", tbl |-> UpsertBatch(tbl, objs, t)]

(* One call of upsert_batch; last keeps the batch, the failing row and the  *)
(* table the call found.                                                    *)
UpsertBatchTxn(objs, fail_at) ==
    /\ LET r == upsert_batch_txn(preprints, objs, fail_at, now)
       IN  /\ preprints' = r.tbl
           /\ last' = [op |-> "upsert_batch", id |-> objs[1].id, res |-> r.exc,
                       objs |-> objs, fail_at |-> fail_at, before |-> preprints]
    /\ UNCHANGED <<sync_state, disk, registry, runs, now>>

NextTxn ==
    \E objs \in TxnBatches : \E fail_at \in 0..Len(objs) : UpsertBatchTxn(objs, fail_at)

SpecTxn == Init /\ [][NextTxn]_vars

(* A batch without a failure is the batch of the sync model. *)
UnfailingBatchIsUpsertBatch ==
    (last.op = "upsert_batch" /\ last.res = "none")
    => preprints = UpsertBatch(last.before, last.objs, now)

(* A failed batch leaves no record partially updated. *)
NoPartialRecord ==
    (last.op = "upsert_batch" /\ last.res = "PersistenceError")
    => \A id \in DOMAIN preprints :
          \/ id \in DOMAIN last.before /\ preprints[id] = last.before[id]
          \/ \E n \in 0..Len(last.objs) :
                LET t == UpsertBatch(last.before, SubSeq(last.objs, 1, n), now)
                IN  id \in DOMAIN t /\ preprints[id] = t[id]

(* C28: a store mutation is a transaction of one record: when the upsert of *)
(* record fail_at of a batch fails, no record is left partially updated and *)
(* the upserts of the records before it in the batch stay committed.        *)
C28_PerRecordTransactions ==
    (last.op = "upsert_batch" /\ last.res = "PersistenceError")
    => preprints = UpsertBatch(last.before, SubSeq(last.objs, 1, last.fail_at - 1), now)

----------------------------------------------------------------------------
(* The frame of an upsert applied for its modified timestamp alone *)

(* The lane fields of a row. *)
LaneFields(row) ==
    <<row.pdf_downloaded, row.pdf_downloaded_at, row.pdf_path,
      row.tei_generated, row.tei_generated_at, row.tei_path>>

(* obj meets its stored row with the same version and the same primary file *)
(* and a newer modified timestamp.                                          *)
NewerModifiedOnly(obj) ==
    /\ obj.id \in DOMAIN preprints
    /\ RowFromOsf(obj).version = preprints[obj.id].version
    /\ RowFromOsf(obj).primary_file_id = preprints[obj.id].primary_file_id
    /\ Gt(RowFromOsf(obj).date_modified, preprints[obj.id].date_modified)

(* C30: an upsert applied only because the incoming modified timestamp is   *)
(* newer, with the same version and the same primary_file_id, leaves the    *)
(* six lane fields of the record as they were.                              *)
C30_ModifiedOnlyUpsertKeepsLanes ==
    \A obj \in FetchOneObjs :
        NewerModifiedOnly(obj)
        => /\ Upserted(obj)[obj.id].date_modified = obj.date_modified
           /\ LaneFields(Upserted(obj)[obj.id]) = LaneFields(preprints[obj.id])

(* A record with both lanes set meets an upsert of the same version and    *)
(* file with a newer modified timestamp, and the upsert is applied.         *)
C30_Witness ==
    \E obj \in FetchOneObjs :
        /\ NewerModifiedOnly(obj)
        /\ preprints[obj.id].pdf_downloaded = TRUE
        /\ preprints[obj.id].pdf_path # NoPath
        /\ preprints[obj.id].tei_generated = TRUE
        /\ preprints[obj.id].tei_path # NoPath
        /\ UpsertOutcome(preprints, obj) = "applied"
        /\ Upserted(obj)[obj.id].date_modified > preprints[obj.id].date_modified

----------------------------------------------------------------------------
(* Every writer of the store side by side *)

(* The sync, both catch-up jobs, both work items and the extraction stage. *)
NextStore ==
    \/ NextLife
    \/ \E id \in PipeIds, svc \in BOOLEAN : ensureExtracted(id, svc)

SpecStore == Init /\ [][NextStore]_vars

(* The columns each lane update may write. *)
PdfLaneColumns == {"pdf_downloaded", "pdf_downloaded_at", "pdf_path", "updated_at"}
TeiLaneColumns == {"tei_generated", "tei_generated_at", "tei_path", "updated_at"}

(* Table b is table a but for the columns cols of the row osf_id. *)
SameButColumns(a, b, osf_id, cols) ==
    /\ DOMAIN a = DOMAIN b
    /\ \A x \in DOMAIN a :
          /\ DOMAIN a[x] = DOMAIN b[x]
          /\ \A f \in DOMAIN a[x] : (x # osf_id \/ f \notin cols) => a[x][f] = b[x][f]

(* A row leaves the store only in the step of a download item on it that   *)
(* answers deleted.                                                         *)
RemovedOnlyByDownload ==
    \A id \in DOMAIN preprints \ DOMAIN preprints' :
        /\ last'.op = "download" /\ last'.id = id /\ last'.res = "deleted"
        /\ \E c \in ChainIds, k \in 1..MaxLimit :
              /\ ItemDue(c, k, "pdf")
              /\ runs[c].items[k] = id
              /\ runs'[c].st[k] # "running"

(* mark_downloaded and mark_tei write their own lane and updated_at of the  *)
(* row they name, and nothing when that row is absent.                      *)
LaneUpdatesFramed ==
    \A id \in PipeIds, ok \in BOOLEAN :
        /\ SameButColumns(mark_downloaded(preprints, id, PdfPathOf(Provider, id), ok, now),
                          preprints, id, PdfLaneColumns)
        /\ SameButColumns(mark_tei(preprints, id, ok, TeiPathOf(Provider, id), now),
                          preprints, id, TeiLaneColumns)

(* C31: a record is removed only by the download pipeline, never by an      *)
(* upsert, a cursor operation, a catch-up selection or an extraction item,  *)
(* and mark_downloaded and mark_tei change only their own lane's fields and *)
(* updated_at and create no row for an absent id.                           *)
C31_OnlyDownloadDeletes ==
    /\ []LaneUpdatesFramed
    /\ [][RemovedOnlyByDownload]_vars

(* A download item has just deleted a record while another record, with    *)
(* both lanes set, is in the store.                                         *)
C31_Witness ==
    /\ last.op = "download" /\ last.res = "deleted"
    /\ last.id \notin DOMAIN preprints
    /\ \E x \in DOMAIN preprints :
          preprints[x].pdf_downloaded = TRUE /\ preprints[x].tei_generated = TRUE

----------------------------------------------------------------------------
(* Download items of one record side by side, chunk by chunk *)

RaceIds == {"w1", "w2"}

(* The record the items are about, served with one PDF (F1) or another     *)
(* (F5, recognised by its name), in any version.                            *)
RaceObjs ==
    {MkObj("p1", <<"a">>, 1, 1, TRUE, ver, rel) :
        ver \in Versions, rel \in {Rel("F1", "F1"), Rel("F5", "F5")}}

(* A file of two chunks: for each chunk the url its bytes came from, "" for *)
(* bytes not written.                                                       *)
EmptyFile == <<"", "">>
WriteChunk(content, url, i) == [content EXCEPT ![i] = url]
IsComplete(content) == content[1] = content[2] /\ content[1] # ""

(* The message as delivered.  fd is where the file the item holds open is   *)
(* linked: at the temp path, at the canonical path, or nowhere.             *)
RaceFrame(osf_id) ==
    [task |-> "race", id |-> osf_id, pc |-> "select", raw |-> NoRel,
     provider_id |-> "NULL", version |-> NULL, fd |-> "closed",
     ok |-> FALSE, path |-> NoPath]

IsRace(w) == w \in DOMAIN runs /\ runs[w].task = "race"

(* tmp.replace(path) seen by the descriptors the other items hold open. *)
FdAfterRename(fd) ==
    IF fd = "tmp" THEN "final" ELSE IF fd = "final" THEN "unlinked" ELSE fd

(* The next statement of download_single_pdf on a PDF or a file without     *)
(* link: the frame (exc is what it raises), the table, the disk.            *)
RaceStepResult(f, tbl, d, t) ==
    LET url == resolve_primary_file_info_from_raw(f.raw).url
        pdf_path == PdfPathOf(f.provider_id, f.id)
        tmp == TmpPathOf(pdf_path)
        held == IF f.fd = "tmp" THEN tmp ELSE pdf_path
        same == [f |-> f, exc |-> "none", renamed |-> FALSE, tbl |-> tbl, disk |-> d]
        chunk(i) == IF f.fd \in {"tmp", "final"}
                    THEN WriteFile(d, held, WriteChunk(d[held], url, i))
                    ELSE d
    IN  CASE f.pc = "select" ->
               IF ~NeedsDownload(tbl, f.id)
               THEN [same EXCEPT !.f.pc = "done"]
               ELSE [same EXCEPT !.f.pc = "resolve", !.f.raw = tbl[f.id].raw,
                                 !.f.provider_id = tbl[f.id].provider_id,
                                 !.f.version = tbl[f.id].version]
          [] f.pc = "resolve" ->
               IF BranchOf(f.raw) = "pdf"
               THEN [same EXCEPT !.f.pc = "open"]
               ELSE [same EXCEPT !.f.pc = "mark", !.tbl = delete_preprint(tbl, f.id)]
          [] f.pc = "open" ->
               [same EXCEPT !.f.pc = "chunk1", !.f.fd = "tmp",
                            !.disk = WriteFile(d, tmp, EmptyFile)]
          [] f.pc = "chunk1" ->
               [same EXCEPT !.f.pc = "chunk2", !.disk = chunk(1)]
          [] f.pc = "chunk2" ->
               [same EXCEPT !.f.pc = "rename", !.f.fd = "closed", !.disk = chunk(2)]
          [] f.pc = "rename" ->
               IF tmp \notin DOMAIN d
               THEN [same EXCEPT !.f.pc = "done", !.exc = "OSError"]
               ELSE [same EXCEPT !.f.pc = "mark", !.f.ok = TRUE, !.f.path = pdf_path,
                                 !.renamed = TRUE,
                                 !.disk = WriteFile(RemoveFile(d, tmp), pdf_path, d[tmp])]
          [] OTHER ->
               [same EXCEPT !.f.pc = "done",
                            !.tbl = mark_downloaded(tbl, f.id, f.path, f.ok, t)]

(* The registry's current object of the record is upserted. *)
RaceUpsert(obj) ==
    /\ preprints' = UpsertBatch(preprints, <<obj>>, now)
    /\ UNCHANGED <<sync_state, disk, registry, runs, now, last>>

(* A download item of the record is delivered to a worker. *)
RaceDeliver(w, osf_id) ==
    /\ w \notin DOMAIN runs
    /\ runs' = AddRun(w, RaceFrame(osf_id))
    /\ UNCHANGED <<preprints, sync_state, disk, registry, now, last>>

(* A worker executes the next statement of its item; the item leaves when   *)
(* it returned or raised.  last keeps what the last mark_downloaded(ok =    *)
(* True) was given and what its item had read.                              *)
RaceStep(w) ==
    /\ IsRace(w)
    /\ LET r == RaceStepResult(runs[w], preprints, disk, now)
           others == [x \in DOMAIN runs \ {w} |->
                        IF r.renamed THEN [runs[x] EXCEPT !.fd = FdAfterRename(@)]
                        ELSE runs[x]]
       IN  /\ runs' = IF r.f.pc = "done" THEN others
                      ELSE [x \in DOMAIN runs |-> IF x = w THEN r.f ELSE others[x]]
           /\ preprints' = r.tbl
           /\ disk' = r.disk
           /\ last' = IF runs[w].pc = "mark" /\ runs[w].ok
                      THEN [op |-> "mark_downloaded", id |-> runs[w].id, res |-> "ok",
                            fid |-> runs[w].raw.fid, version |-> runs[w].version]
                      ELSE last
    /\ UNCHANGED <<sync_state, registry, now>>

(* The transfer fails or the worker dies between two statements: the item   *)
(* is gone and what it wrote stays.                                         *)
RaceAbort(w) ==
    /\ IsRace(w)
    /\ runs[w].pc # "select"
    /\ runs' = DropRun(w)
    /\ UNCHANGED <<preprints, sync_state, disk, registry, now, last>>

NextRace ==
    \/ \E obj \in RaceObjs : RaceUpsert(obj)
    \/ \E w \in RaceIds : RaceDeliver(w, "p1")
    \/ \E w \in RaceIds : RaceStep(w)
    \/ \E w \in RaceIds : RaceAbort(w)

SpecRace == Init /\ [][NextRace]_vars

(* The canonical PDF path of the record. *)
CanonicalPdf == PdfPathOf(Provider, "p1")

(* The same items when a worker takes one only after the last one left. *)
NextRaceSolo ==
    \/ \E obj \in RaceObjs : RaceUpsert(obj)
    \/ \E w \in RaceIds : DOMAIN runs = {} /\ RaceDeliver(w, "p1")
    \/ \E w \in RaceIds : RaceStep(w)
    \/ \E w \in RaceIds : RaceAbort(w)

SpecRaceSolo == Init /\ [][NextRaceSolo]_vars

(* C32: during a PDF download the canonical path of the record never holds  *)
(* a partially written file, also after a failure or crash mid-transfer: it *)
(* is absent or holds a complete file, the earlier or the new one.          *)
C32_CanonicalNeverPartial ==
    CanonicalPdf \in DOMAIN disk => IsComplete(disk[CanonicalPdf])

----------------------------------------------------------------------------
(* Extraction items of one record side by side *)

(* The record, with a PDF as primary file. *)
TeiObj == MkObj("p1", <<"a">>, 1, 1, TRUE, 1, Rel("F1", "F1"))

(* The document the service answers, written in full. *)
TeiDocument == <<"tei", "tei">>

(* The extraction stage as delivered: process_pdf_to_tei is given the row's *)
(* provider, as its declaration asks.                                       *)
TeiFrame(osf_id) ==
    [task |-> "tei", id |-> osf_id, pc |-> "select", provider_id |-> "NULL",
     fd |-> "closed", ok |-> FALSE, path |-> NoPath]

IsTei(w) == w \in DOMAIN runs /\ runs[w].task = "tei"

(* The next statement of the stage: the row checks of grobid_single, then   *)
(* process_pdf_to_tei (the request, tmp.write_text as open and write,       *)
(* tmp.replace), then mark_tei.  svc: the service answers.                  *)
TeiStepResult(f, tbl, d, svc, t) ==
    LET tei_path == TeiPathOf(f.provider_id, f.id)
        tmp == TmpPathOf(tei_path)
        held == IF f.fd = "tmp" THEN tmp ELSE tei_path
        same == [f |-> f, exc |-> "none", renamed |-> FALSE, tbl |-> tbl, disk |-> d]
    IN  CASE f.pc = "select" ->
               IF ~NeedsTei(tbl, f.id)
               THEN [same EXCEPT !.f.pc = "done"]
               ELSE [same EXCEPT !.f.pc = "post",
                                 !.f.provider_id = tbl[f.id].provider_id]
          [] f.pc = "post" ->
               IF _pdf_path(d, f.provider_id, f.id) = NoPath \/ ~svc
               THEN [same EXCEPT !.f.pc = "mark"]
               ELSE [same EXCEPT !.f.pc = "open",
                                 !.disk = DiskAfterPdfPath(d, f.provider_id, f.id)]
          [] f.pc = "open" ->
               [same EXCEPT !.f.pc = "write", !.f.fd = "tmp",
                            !.disk = WriteFile(d, tmp, EmptyFile)]
          [] f.pc = "write" ->
               [same EXCEPT !.f.pc = "rename", !.f.fd = "closed",
                            !.disk = IF f.fd \in {"tmp", "final"}
                                     THEN WriteFile(d, held, TeiDocument)
                                     ELSE d]
          [] f.pc = "rename" ->
               IF tmp \notin DOMAIN d
               THEN [same EXCEPT !.f.pc = "done", !.exc = "OSError"]
               ELSE [same EXCEPT !.f.pc = "mark", !.f.ok = TRUE, !.f.path = tei_path,
                                 !.renamed = TRUE,
                                 !.disk = WriteFile(RemoveFile(d, tmp), tei_path, d[tmp])]
          [] OTHER ->
               [same EXCEPT !.f.pc = "done",
                            !.tbl = mark_tei(tbl, f.id, f.ok, f.path, t)]

(* An extraction item of the record is delivered to a worker. *)
TeiDeliver(w, osf_id) ==
    /\ w \notin DOMAIN runs
    /\ runs' = AddRun(w, TeiFrame(osf_id))
    /\ UNCHANGED <<preprints, sync_state, disk, registry, now, last>>

(* A worker executes the next statement of its item. *)
TeiStep(w, svc) ==
    /\ IsTei(w)
    /\ LET r == TeiStepResult(runs[w], preprints, disk, svc, now)
           others == [x \in DOMAIN runs \ {w} |->
                        IF r.renamed THEN [runs[x] EXCEPT !.fd = FdAfterRename(@)]
                        ELSE runs[x]]
       IN  /\ runs' = IF r.f.pc = "done" THEN others
                      ELSE [x \in DOMAIN runs |-> IF x = w THEN r.f ELSE others[x]]
           /\ preprints' = r.tbl
           /\ disk' = r.disk
           /\ last' = [op |-> "extract", id |-> runs[w].id,
                       res |-> IF r.exc # "none" THEN r.exc ELSE runs[w].pc]
    /\ UNCHANGED <<sync_state, registry, now>>

(* The worker dies between two statements. *)
TeiAbort(w) ==
    /\ IsTei(w)
    /\ runs[w].pc # "select"
    /\ runs' = DropRun(w)
    /\ UNCHANGED <<preprints, sync_state, disk, registry, now, last>>

NextTei ==
    \/ Tick
    \/ upsert_one_preprint(TeiObj)
    \/ download_single_pdf("p1", TRUE)
    \/ \E w \in RaceIds : TeiDeliver(w, "p1")
    \/ \E w \in RaceIds, svc \in BOOLEAN : TeiStep(w, svc)
    \/ \E w \in RaceIds : TeiAbort(w)

SpecTei == Init /\ [][NextTei]_vars

(* The same when a worker takes an item only after the last one left. *)
NextTeiSolo ==
    \/ Tick
    \/ upsert_one_preprint(TeiObj)
    \/ download_single_pdf("p1", TRUE)
    \/ \E w \in RaceIds : DOMAIN runs = {} /\ TeiDeliver(w, "p1")
    \/ \E w \in RaceIds, svc \in BOOLEAN : TeiStep(w, svc)
    \/ \E w \in RaceIds : TeiAbort(w)

SpecTeiSolo == Init /\ [][NextTeiSolo]_vars

----------------------------------------------------------------------------
(* The fetchers called with date strings *)

(* A date argument: the ISO string of a day, a string that is no ISO date,  *)
(* or None.                                                                 *)
IsoDate(d) == [kind |-> "iso", day |-> d]
BadDate == [kind |-> "bad", day |-> NULL]
NoDate == [kind |-> "none", day |-> NULL]

(* datetime.date.fromisoformat: the day, or ValueError. *)
fromisoformat(s) ==
    IF s.kind = "iso" THEN [exc |-> "none", day |-> s.day]
    ELSE [exc |-> "ValueError", day |-> NULL]

(* What a fetch answers to a consumer that drains it: the exception raised, *)
(* the requests sent (taxonomy lookup and page GETs) and the batches.       *)
Rejected == [exc |-> "ValueError", calls |-> 0, batches |-> << >>]

Fetched(reg, since_day, until_day, subject_text, batch_size) ==
    {[exc |-> "none",
      calls |-> (IF subject_text # "NULL" THEN 1 ELSE 0)
                + (IF records = << >> THEN 1 ELSE Len(PagesOf(records))),
      batches |-> iter_preprints_batches(records, batch_size)] :
        records \in SortedSeqs(Matching(reg, since_day, until_day, subject_text))}

(* Variant: the dates are checked after the taxonomy lookup was sent. *)
iter_preprints_LateCheck(kind, lower, upper, subject_text, reg, batch_size, today) ==
    IF \/ fromisoformat(lower).exc # "none"
       \/ (kind = "range" /\ upper # NoDate /\ fromisoformat(upper).exc # "none")
    THEN {[Rejected EXCEPT !.calls = IF subject_text # "NULL" THEN 1 ELSE 0]}
    ELSE Fetched(reg, lower.day,
                 IF kind # "range" THEN NULL
                 ELSE IF upper = NoDate THEN today ELSE upper.day,
                 subject_text, batch_size)

(* iter_preprints_batches (kind "batches", no upper date) and               *)
(* iter_preprints_range (kind "range"): the dates are parsed first, then    *)
(* the subject is looked up, then the pages are requested.                  *)
iter_preprints(kind, lower, upper, subject_text, reg, batch_size, today) ==
    IF fromisoformat(lower).exc # "none"
    THEN {Rejected}
    ELSE IF kind = "range" /\ upper # NoDate /\ fromisoformat(upper).exc # "none"
    THEN {Rejected}
    ELSE Fetched(reg, lower.day,
                 IF kind # "range" THEN NULL
                 ELSE IF upper = NoDate THEN today ELSE upper.day,
                 subject_text, batch_size)

DateArgs == {IsoDate(d) : d \in Days} \cup {BadDate}

(* A consumer drains a fetch and upserts every batch it gets, as the sync   *)
(* tasks do.  last keeps the call.                                          *)
FetchAndUpsert(kind, lower, upper, subject_text, batch_size) ==
    /\ \E r \in iter_preprints(kind, lower, upper, subject_text, registry,
                               batch_size, DateOf(now)) :
          /\ preprints' = UpsertBatch(preprints, Concat(r.batches), now)
          /\ last' = [op |-> kind, id |-> "NULL", res |-> r.exc, calls |-> r.calls,
                      batches |-> Len(r.batches), lower |-> lower, upper |-> upper,
                      subject |-> subject_text]
    /\ UNCHANGED <<sync_state, disk, registry, runs, now>>

(* The records the registry comes to serve, published at the first instant. *)
ValidateObjs ==
    {MkObj(id, <<"a">>, 1, 1, TRUE, 1, Rel("F1", "F1")) : id \in RegIds}

NextValidate ==
    \/ \E obj \in ValidateObjs : RegistryPublish(obj)
    \/ SyncStart("r1", "NULL", MaxBatch)
    \/ SyncBatch("r1")
    \/ SyncFinish("r1")
    \/ \E lower \in DateArgs, s \in Subjects, bs \in 1..MaxBatch :
          FetchAndUpsert("batches", lower, NoDate, s, bs)
    \/ \E lower \in DateArgs, upper \in DateArgs \cup {NoDate},
          s \in Subjects, bs \in 1..MaxBatch :
          FetchAndUpsert("range", lower, upper, s, bs)

SpecValidate == Init /\ [][NextValidate]_vars

(* The last call was a fetch with a malformed lower or upper date. *)
MalformedCall ==
    /\ last.op \in {"batches", "range"}
    /\ \/ last.lower = BadDate
       \/ (last.op = "range" /\ last.upper = BadDate)

(* C34: a fetch, incremental or ranged, called with a malformed lower or    *)
(* upper date is rejected before any network call: no taxonomy lookup and   *)
(* no page request is sent, no batch is emitted, and neither the store nor  *)
(* the cursor changes.                                                      *)
C34_MalformedDateRejected ==
    [][(last' # last /\ MalformedCall')
       => /\ last'.res = "ValueError"
          /\ last'.calls = 0
          /\ last'.batches = 0
          /\ preprints' = preprints
          /\ sync_state' = sync_state]_vars

(* A ranged fetch with a subject filter and a malformed upper date was      *)
(* called on a store with a record and a cursor while the registry serves   *)
(* a record from the lower date on.                                         *)
C34_Witness ==
    /\ last.op = "range" /\ last.upper = BadDate /\ last.lower # BadDate
    /\ last.subject # "NULL"
    /\ preprints # EmptyTable
    /\ sync_state # EmptyTable
    /\ Matching(registry, last.lower.day, NULL, last.subject) # {}

(***************************************************************************)
(* Repeated download catch-up runs with a fixed limit while one record's   *)
(* download fails on every attempt.                                        *)
(***************************************************************************)

ProgressLimit == 1   \* the limit every catch-up run of this section passes

(* The records whose file download raises RequestException every time. *)
PermFailing == {"p1"}

(* p1 was published before p2; both have a PDF primary file. *)
ProgressObjs ==
    {MkObj("p1", <<"a">>, m, 1, TRUE, v, Rel("F1", "F1")) : m \in Times, v \in Versions}
    \cup {MkObj("p2", <<"a">>, m, 2, TRUE, v, Rel("F1", "F1")) : m \in Times, v \in Versions}

(* The environment of the k-th item of a chain. *)
EnvOf(c, k) == IF runs[c].items[k] \in PermFailing THEN "net_download" ELSE "ok"

CatchUpRun == enqueue_pdf_downloads("c1", ProgressLimit)

CatchUpWorker ==
    \/ \E k \in 1..MaxLimit : WorkerStart("c1", k)
    \/ \E k \in 1..MaxLimit :
          /\ IsChain("c1")
          /\ k \in DOMAIN runs["c1"].items
          /\ DownloadItem("c1", k, EnvOf("c1", k), TRUE)
    \/ ChainOver("c1")

NextProgress ==
    \/ Tick
    \/ \E obj \in ProgressObjs : upsert_one_preprint(obj)
    \/ CatchUpRun
    \/ CatchUpWorker

SpecProgress == Init /\ [][NextProgress]_vars

(* The periodic catch-up keeps being sent and the workers keep taking      *)
(* the queued items.                                                       *)
SpecProgressFair ==
    /\ SpecProgress
    /\ WF_vars(CatchUpRun)
    /\ WF_vars(CatchUpWorker)

(* The record's download lane is set or the record was removed. *)
DownloadSettled(id) ==
    id \notin DOMAIN preprints \/ preprints[id].pdf_downloaded = TRUE

(* C35: while some eligible records fail permanently, every other eligible *)
(* record is eventually dispatched and processed by the repeated catch-up  *)
(* runs with a fixed limit.                                                *)
C35_OthersEventuallyProcessed ==
    \A id \in PipeIds \ PermFailing :
        (id \in PdfEligible(preprints)) ~> DownloadSettled(id)

RaceDelObjs ==
    {MkObj("p1", <<"a">>, 1, 1, TRUE, 1, rel) : rel \in {Rel("F1", "F1"), Rel("F4", "F4")}}

NextRaceDel ==
    \/ \E obj \in RaceDelObjs : RaceUpsert(obj)
    \/ \E w \in RaceIds : RaceDeliver(w, "p1")
    \/ \E w \in RaceIds : RaceStep(w)
    \/ \E w \in RaceIds : RaceAbort(w)

SpecRaceDel == Init /\ [][NextRaceDel]_vars

(* The download lane of a row: flag set exactly when path and time are. *)
PdfLaneConsistent(row) ==
    (row.pdf_downloaded = TRUE) <=> (row.pdf_path # NoPath /\ row.pdf_downloaded_at # NULL)

(* The extraction lane of a row: flag set exactly when path and time are. *)
TeiLaneConsistent(row) ==
    (row.tei_generated = TRUE) <=> (row.tei_path # NoPath /\ row.tei_generated_at # NULL)

(* C37: in every reachable state each lane of a record is internally       *)
(* consistent: downloaded is true exactly when local path and download     *)
(* time are non-null, and extracted is true exactly when output path and   *)
(* extraction time are non-null.                                           *)
C37_LanesConsistent ==
    \A id \in DOMAIN preprints :
        PdfLaneConsistent(preprints[id]) /\ TeiLaneConsistent(preprints[id])

(* The file and version the last successful mark_downloaded of a download  *)
(* item was fetched for are those of the stored row.                       *)
FetchedForCurrent(id) ==
    /\ last.fid = preprints[id].primary_file_id
    /\ last.version = preprints[id].version

(* C38: a download item that read the record before an upsert invalidated  *)
(* it cannot mark the record downloaded with the stale file: whenever the  *)
(* download lane is set, the local file was fetched for the record's       *)
(* current primary file and version.                                       *)
C38_DownloadedIsCurrent ==
    \A id \in DOMAIN preprints :
        (preprints[id].pdf_downloaded = TRUE /\ last.op = "mark_downloaded" /\ last.id = id)
            => FetchedForCurrent(id)

(* C39: when two work items of one record run concurrently, a failed       *)
(* attempt never undoes a successful one: a step of a work item does not   *)
(* reset a set download lane or a set extraction lane of a stored record   *)
(* to false.                                                               *)
C39_FailedNeverUndoes ==
    [][\A id \in DOMAIN preprints \cap DOMAIN preprints' :
          runs' # runs =>
             /\ preprints[id].pdf_downloaded = TRUE => preprints'[id].pdf_downloaded = TRUE
             /\ preprints[id].tei_generated = TRUE => preprints'[id].tei_generated = TRUE]_vars

(* The records of the batches a run has fetched and not yet upserted. *)
PendingRecords(f) ==
    UNION {{f.pending[k][i] : i \in DOMAIN f.pending[k]} : k \in DOMAIN f.pending}

(* This step starts the incremental run r. *)
StartsSync(r) ==
    /\ r \notin DOMAIN runs
    /\ r \in DOMAIN runs'
    /\ runs'[r].task = "sync_from_osf"

(* This step ends the incremental run r while batches are outstanding. *)
FailsPartWay(r) ==
    /\ r \in DOMAIN runs
    /\ runs[r].task = "sync_from_osf"
    /\ runs[r].pending # << >>
    /\ r \notin DOMAIN runs'

(* The registry records of the run's subject published at or after t. *)
PublishedSince(reg, subject_text, t) ==
    {reg[x] : x \in {y \in DOMAIN reg :
        /\ reg[y].is_published
        /\ reg[y].date_published # NULL
        /\ reg[y].date_published >= t
        /\ InSubject(reg[y], subject_text)}}

(* C40: in an incremental sync run the cursor is written only by a run     *)
(* that has upserted every batch it fetched; a run that fails part-way     *)
(* leaves the cursor as it was; and a run starts its fetch no later than   *)
(* the stored cursor, so every registry record published at or after the   *)
(* stored cursor is fetched again and none is skipped.                     *)
C40_CursorAfterAllBatches ==
    [][/\ sync_state' # sync_state
          => \E r \in DOMAIN runs \ DOMAIN runs' :
                runs[r].task = "sync_from_osf" /\ runs[r].pending = << >>
       /\ \A r \in RunIds :
             /\ FailsPartWay(r) => sync_state' = sync_state
             /\ (StartsSync(r) /\ runs'[r].key \in DOMAIN sync_state)
                => LET cur == _get_cursor(sync_state, runs'[r].key)
                   IN  /\ DateOf(runs'[r].since_dt) * DayLen <= cur
                       /\ PublishedSince(registry, runs'[r].subject, cur)
                             \subseteq PendingRecords(runs'[r])]_vars

(* A run failed part-way after it wrote a record (the record was written   *)
(* after the last run that stored the cursor, and no other run is in       *)
(* flight), and the next run has just fetched that record again.           *)
C40_Witness ==
    /\ DOMAIN runs = {"r1"}
    /\ runs["r1"].task = "sync_from_osf"
    /\ runs["r1"].total = 0
    /\ runs["r1"].key \in DOMAIN sync_state
    /\ \E id \in DOMAIN preprints :
          /\ preprints[id].updated_at > sync_state[runs["r1"].key].last_run_at
          /\ preprints[id].date_published >= _get_cursor(sync_state, runs["r1"].key)
          /\ id \in {x.id : x \in PendingRecords(runs["r1"])}

====
